---- MODULE Spec2Model ----
(***************************************************************************)
(* Model of src/mods/channels.rs: the fifteen channels.* endpoint          *)
(* functions of the Slack Web API binding.  Every endpoint builds a        *)
(* parameter list, sends it through the injected SlackWebRequestSender,    *)
(* decodes the body into its Response struct, and converts the Response    *)
(* into Result<Response, Error> through the endpoint's error-code table.   *)
(***************************************************************************)
EXTENDS Integers, Sequences, FiniteSets, TLC

VARIABLES pc, ep, token, request, sent, reply, decoded, result, resolved

vars == <<pc, ep, token, request, sent, reply, decoded, result, resolved>>

callVars == <<pc, ep, token, request, sent, reply, decoded, result>>

(***************************************************************************)
(* Option<T>, Result<T, E> and the error enum's variants.                  *)
(***************************************************************************)
None == [some |-> FALSE]

Some(x) == [some |-> TRUE, v |-> x]

Ok(x) == [kind |-> "Ok", val |-> x]

Err(e) == [kind |-> "Err", err |-> e]

Variant(name) == [tag |-> name]

Unknown(s) == [tag |-> "Unknown", s |-> s]

MalformedResponse(e) == [tag |-> "MalformedResponse", e |-> e]

Client(e) == [tag |-> "Client", e |-> e]

\* Option::unwrap_or on the Option<&str> obtained from the error field
unwrap_or(o, d) == IF o.some THEN o.v ELSE d

(***************************************************************************)
(* Building the parameter list.                                            *)
(***************************************************************************)
\* Iterator::filter_map(|x| x): keeps the payloads of the Some entries, in order
RECURSIVE filter_map(_)
filter_map(xs) ==
    IF xs = << >> THEN << >>
    ELSE IF Head(xs).some THEN << Head(xs).v >> \o filter_map(Tail(xs))
         ELSE filter_map(Tail(xs))

\* request.field.map(|field| ("field", field))
MapStr(name, o) == IF o.some THEN Some(<<name, o.v>>) ELSE None

\* A bool field written as "true" or "false"
MapBoolWords(name, o) ==
    IF o.some THEN Some(<<name, IF o.v THEN "true" ELSE "false">>) ELSE None

\* request.field.map(|field| ("field", if field { "1" } else { "0" }))
MapBool(name, o) == IF o.some THEN Some(<<name, IF o.v THEN "1" ELSE "0">>) ELSE None

(* A u32 is kept as two 16-bit halves, hi * 65536 + lo. *)
U32(hi, lo) == [hi |-> hi, lo |-> lo]

DivMod10(n) ==
    LET t == (n.hi % 10) * 65536 + n.lo
    IN  [q |-> U32(n.hi \div 10, t \div 10), r |-> t % 10]

Digit(d) == SubSeq("0123456789", d + 1, d + 1)

\* u32::to_string: the decimal digits, most significant first
to_string(n) ==
    LET digits[m \in [hi : 0..65535, lo : 0..65535]] ==
            IF m.hi = 0 /\ m.lo < 10 THEN Digit(m.lo)
            ELSE digits[DivMod10(m).q] \o Digit(DivMod10(m).r)
    IN  digits[n]

\* The count sent only when it lies in the documented range 1 to 1000
MapToStringInRange(o) ==
    IF o.some /\ o.v.hi = 0 /\ o.v.lo >= 1 /\ o.v.lo <= 1000 THEN Some(to_string(o.v)) ELSE None

\* request.count.map(|count| count.to_string())
MapToString(o) == IF o.some THEN Some(to_string(o.v)) ELSE None

\* ::get_slack_url_for_method
get_slack_url_for_method(method) == "https://slack.com/api/" \o method

(***************************************************************************)
(* The values the caller passes in.                                        *)
(***************************************************************************)
Tokens == {"xoxb-1", ""}

StrValues(field) ==
    CASE field = "channel" -> {"C123", ""}
      [] field = "user" -> {"U1", ""}
      [] field = "name" -> {"general", ""}
      [] field = "ts" -> {"1234567890.000100", ""}
      [] field = "thread_ts" -> {"1234567890.000200", ""}
      [] field = "purpose" -> {"a purpose", ""}
      [] field = "topic" -> {"a topic", ""}
      [] field = "latest" -> {"1234567899.000000"}
      [] field = "oldest" -> {"1234567800.000000"}

OptStr(field) == {None} \cup {Some(s) : s \in StrValues(field)}

OptBool == {None, Some(TRUE), Some(FALSE)}

OptU32 ==
    {None, Some(U32(0, 0)), Some(U32(0, 1000)), Some(U32(1, 0)), Some(U32(65535, 65535))}

\* The wire code a description starts with: the text before the first ": "
RECURSIVE ColonAt(_, _)
ColonAt(str, i) ==
    IF i + 1 > Len(str) THEN 0
    ELSE IF SubSeq(str, i, i + 1) = ": " THEN i
    ELSE ColonAt(str, i + 1)

CodeOf(str) == IF ColonAt(str, 1) = 0 THEN str ELSE SubSeq(str, 1, ColonAt(str, 1) - 1)

\* str::starts_with
starts_with(str, prefix) ==
    Len(prefix) <= Len(str) /\ SubSeq(str, 1, Len(prefix)) = prefix

(***************************************************************************)
(* channels.archive                                                      *)
(***************************************************************************)
(* The domain variants of enum ArchiveError (every variant but MalformedResponse, Unknown, Client) *)
ArchiveError ==
    {"ChannelNotFound", "AlreadyArchived", "CantArchiveGeneral", "RestrictedAction",
     "NotAuthed", "InvalidAuth", "AccountInactive", "UserIsBot",
     "UserIsRestricted", "InvalidArgName", "InvalidArrayArg", "InvalidCharset",
     "InvalidFormData", "InvalidPostType", "MissingPostType", "TeamAddedToOrg",
     "RequestTimeout"}

(* Error::description for ArchiveError *)
ArchiveErrorDescription(e) ==
    CASE e.tag = "ChannelNotFound" ->
           "channel_not_found: Value passed for channel was invalid."
      [] e.tag = "AlreadyArchived" ->
           "already_archived: Channel has already been archived."
      [] e.tag = "CantArchiveGeneral" ->
           "cant_archive_general: You cannot archive the general channel"
      [] e.tag = "RestrictedAction" ->
           "restricted_action: A team preference prevents the authenticated user from archiving."
      [] e.tag = "NotAuthed" ->
           "not_authed: No authentication token provided."
      [] e.tag = "InvalidAuth" ->
           "invalid_auth: Invalid authentication token."
      [] e.tag = "AccountInactive" ->
           "account_inactive: Authentication token is for a deleted user or team."
      [] e.tag = "UserIsBot" ->
           "user_is_bot: This method cannot be called by a bot user."
      [] e.tag = "UserIsRestricted" ->
           "user_is_restricted: This method cannot be called by a restricted user or single channel guest."
      [] e.tag = "InvalidArgName" ->
           "invalid_arg_name: The method was passed an argument whose name falls outside the bounds of common decency. This includes very long names and names with non-alphanumeric characters other than _. If you get this error, it is typically an indication that you have made a very malformed API call."
      [] e.tag = "InvalidArrayArg" ->
           "invalid_array_arg: The method was passed a PHP-style array argument (e.g. with a name like foo[7]). These are never valid with the Slack API."
      [] e.tag = "InvalidCharset" ->
           "invalid_charset: The method was called via a POST request, but the charset specified in the Content-Type header was invalid. Valid charset names are: utf-8 iso-8859-1."
      [] e.tag = "InvalidFormData" ->
           "invalid_form_data: The method was called via a POST request with Content-Type application/x-www-form-urlencoded or multipart/form-data, but the form data was either missing or syntactically invalid."
      [] e.tag = "InvalidPostType" ->
           "invalid_post_type: The method was called via a POST request, but the specified Content-Type was invalid. Valid types are: application/x-www-form-urlencoded multipart/form-data text/plain."
      [] e.tag = "MissingPostType" ->
           "missing_post_type: The method was called via a POST request and included a data payload, but the request did not include a Content-Type header."
      [] e.tag = "TeamAddedToOrg" ->
           "team_added_to_org: The team associated with your request is currently undergoing migration to an Enterprise Organization. Web API and other platform operations will be intermittently unavailable until the transition is complete."
      [] e.tag = "RequestTimeout" ->
           "request_timeout: The method was called via a POST request, but the POST data was either missing or truncated."
      [] e.tag = "MalformedResponse" -> e.e
      [] e.tag = "Unknown" -> e.s
      [] e.tag = "Client" -> e.e

(* impl From<&str> for ArchiveError *)
ArchiveErrorFrom(s) ==
    CASE s = "channel_not_found" -> Variant("ChannelNotFound")
      [] s = "already_archived" -> Variant("AlreadyArchived")
      [] s = "cant_archive_general" -> Variant("CantArchiveGeneral")
      [] s = "restricted_action" -> Variant("RestrictedAction")
      [] s = "not_authed" -> Variant("NotAuthed")
      [] s = "invalid_auth" -> Variant("InvalidAuth")
      [] s = "account_inactive" -> Variant("AccountInactive")
      [] s = "user_is_bot" -> Variant("UserIsBot")
      [] s = "user_is_restricted" -> Variant("UserIsRestricted")
      [] s = "invalid_arg_name" -> Variant("InvalidArgName")
      [] s = "invalid_array_arg" -> Variant("InvalidArrayArg")
      [] s = "invalid_charset" -> Variant("InvalidCharset")
      [] s = "invalid_form_data" -> Variant("InvalidFormData")
      [] s = "invalid_post_type" -> Variant("InvalidPostType")
      [] s = "missing_post_type" -> Variant("MissingPostType")
      [] s = "team_added_to_org" -> Variant("TeamAddedToOrg")
      [] s = "request_timeout" -> Variant("RequestTimeout")
      [] OTHER -> Unknown(s)

\* into that looks at the error member before the ok flag
ArchiveResponseIntoErrorFirst(self) ==
    IF self.error.some THEN Err(ArchiveErrorFrom(self.error.v))
    ELSE IF self.ok THEN Ok(self) ELSE Err(ArchiveErrorFrom(""))

\* into that resolves a placeholder code when the error member is missing
ArchiveResponseIntoPlaceholder(self) ==
    IF self.ok THEN Ok(self) ELSE Err(ArchiveErrorFrom(unwrap_or(self.error, "unknown_error")))

(* impl Into<Result<ArchiveResponse, ArchiveError<E>>> for ArchiveResponse *)
ArchiveResponseInto(self) ==
    IF self.ok THEN Ok(self) ELSE Err(ArchiveErrorFrom(unwrap_or(self.error, "")))

\* The parameter list with the channel sent under the name channel_id
archive_paramsChannelId(tok, req) ==
    filter_map(<<Some(<<"token", tok>>), Some(<<"channel_id", req.channel>>)>>)

(* archive: the parameter list handed to the sender *)
archive_params(tok, req) ==
    filter_map(<<Some(<<"token", tok>>),
                 Some(<<"channel", req.channel>>)>>)

archive_url == get_slack_url_for_method("channels.archive")

(* struct ArchiveRequest: the values drawn for it *)
ArchiveRequest ==
    [channel : StrValues("channel")]

(***************************************************************************)
(* channels.create                                                       *)
(***************************************************************************)
(* The domain variants of enum CreateError (every variant but MalformedResponse, Unknown, Client) *)
CreateError ==
    {"NameTaken", "RestrictedAction", "NoChannel", "InvalidNameRequired",
     "InvalidNamePunctuation", "InvalidNameMaxlength", "InvalidNameSpecials", "InvalidName",
     "NotAuthed", "InvalidAuth", "AccountInactive", "UserIsBot",
     "UserIsRestricted", "InvalidArgName", "InvalidArrayArg", "InvalidCharset",
     "InvalidFormData", "InvalidPostType", "MissingPostType", "TeamAddedToOrg",
     "RequestTimeout"}

(* Error::description for CreateError *)
CreateErrorDescription(e) ==
    CASE e.tag = "NameTaken" ->
           "name_taken: A channel cannot be created with the given name."
      [] e.tag = "RestrictedAction" ->
           "restricted_action: A team preference prevents the authenticated user from creating channels."
      [] e.tag = "NoChannel" ->
           "no_channel: Value passed for name was empty."
      [] e.tag = "InvalidNameRequired" ->
           "invalid_name_required: Value passed for name was empty."
      [] e.tag = "InvalidNamePunctuation" ->
           "invalid_name_punctuation: Value passed for name contained only punctuation."
      [] e.tag = "InvalidNameMaxlength" ->
           "invalid_name_maxlength: Value passed for name exceeded max length."
      [] e.tag = "InvalidNameSpecials" ->
           "invalid_name_specials: Value passed for name contained unallowed special characters or upper case characters."
      [] e.tag = "InvalidName" ->
           "invalid_name: Value passed for name was invalid."
      [] e.tag = "NotAuthed" ->
           "not_authed: No authentication token provided."
      [] e.tag = "InvalidAuth" ->
           "invalid_auth: Invalid authentication token."
      [] e.tag = "AccountInactive" ->
           "account_inactive: Authentication token is for a deleted user or team."
      [] e.tag = "UserIsBot" ->
           "user_is_bot: This method cannot be called by a bot user."
      [] e.tag = "UserIsRestricted" ->
           "user_is_restricted: This method cannot be called by a restricted user or single channel guest."
      [] e.tag = "InvalidArgName" ->
           "invalid_arg_name: The method was passed an argument whose name falls outside the bounds of common decency. This includes very long names and names with non-alphanumeric characters other than _. If you get this error, it is typically an indication that you have made a very malformed API call."
      [] e.tag = "InvalidArrayArg" ->
           "invalid_array_arg: The method was passed a PHP-style array argument (e.g. with a name like foo[7]). These are never valid with the Slack API."
      [] e.tag = "InvalidCharset" ->
           "invalid_charset: The method was called via a POST request, but the charset specified in the Content-Type header was invalid. Valid charset names are: utf-8 iso-8859-1."
      [] e.tag = "InvalidFormData" ->
           "invalid_form_data: The method was called via a POST request with Content-Type application/x-www-form-urlencoded or multipart/form-data, but the form data was either missing or syntactically invalid."
      [] e.tag = "InvalidPostType" ->
           "invalid_post_type: The method was called via a POST request, but the specified Content-Type was invalid. Valid types are: application/x-www-form-urlencoded multipart/form-data text/plain."
      [] e.tag = "MissingPostType" ->
           "missing_post_type: The method was called via a POST request and included a data payload, but the request did not include a Content-Type header."
      [] e.tag = "TeamAddedToOrg" ->
           "team_added_to_org: The team associated with your request is currently undergoing migration to an Enterprise Organization. Web API and other platform operations will be intermittently unavailable until the transition is complete."
      [] e.tag = "RequestTimeout" ->
           "request_timeout: The method was called via a POST request, but the POST data was either missing or truncated."
      [] e.tag = "MalformedResponse" -> e.e
      [] e.tag = "Unknown" -> e.s
      [] e.tag = "Client" -> e.e

\* The table with the arm of invalid_name taken by every string that starts with it
CreateErrorFromByPrefix(s) ==
    CASE s = "name_taken" -> Variant("NameTaken")
      [] s = "restricted_action" -> Variant("RestrictedAction")
      [] s = "no_channel" -> Variant("NoChannel")
      [] s = "invalid_name_required" -> Variant("InvalidNameRequired")
      [] s = "invalid_name_punctuation" -> Variant("InvalidNamePunctuation")
      [] s = "invalid_name_maxlength" -> Variant("InvalidNameMaxlength")
      [] s = "invalid_name_specials" -> Variant("InvalidNameSpecials")
      [] starts_with(s, "invalid_name") -> Variant("InvalidName")
      [] s = "not_authed" -> Variant("NotAuthed")
      [] s = "invalid_auth" -> Variant("InvalidAuth")
      [] s = "account_inactive" -> Variant("AccountInactive")
      [] s = "user_is_bot" -> Variant("UserIsBot")
      [] s = "user_is_restricted" -> Variant("UserIsRestricted")
      [] s = "invalid_arg_name" -> Variant("InvalidArgName")
      [] s = "invalid_array_arg" -> Variant("InvalidArrayArg")
      [] s = "invalid_charset" -> Variant("InvalidCharset")
      [] s = "invalid_form_data" -> Variant("InvalidFormData")
      [] s = "invalid_post_type" -> Variant("InvalidPostType")
      [] s = "missing_post_type" -> Variant("MissingPostType")
      [] s = "team_added_to_org" -> Variant("TeamAddedToOrg")
      [] s = "request_timeout" -> Variant("RequestTimeout")
      [] OTHER -> Unknown(s)

(* impl From<&str> for CreateError *)
CreateErrorFrom(s) ==
    CASE s = "name_taken" -> Variant("NameTaken")
      [] s = "restricted_action" -> Variant("RestrictedAction")
      [] s = "no_channel" -> Variant("NoChannel")
      [] s = "invalid_name_required" -> Variant("InvalidNameRequired")
      [] s = "invalid_name_punctuation" -> Variant("InvalidNamePunctuation")
      [] s = "invalid_name_maxlength" -> Variant("InvalidNameMaxlength")
      [] s = "invalid_name_specials" -> Variant("InvalidNameSpecials")
      [] s = "invalid_name" -> Variant("InvalidName")
      [] s = "not_authed" -> Variant("NotAuthed")
      [] s = "invalid_auth" -> Variant("InvalidAuth")
      [] s = "account_inactive" -> Variant("AccountInactive")
      [] s = "user_is_bot" -> Variant("UserIsBot")
      [] s = "user_is_restricted" -> Variant("UserIsRestricted")
      [] s = "invalid_arg_name" -> Variant("InvalidArgName")
      [] s = "invalid_array_arg" -> Variant("InvalidArrayArg")
      [] s = "invalid_charset" -> Variant("InvalidCharset")
      [] s = "invalid_form_data" -> Variant("InvalidFormData")
      [] s = "invalid_post_type" -> Variant("InvalidPostType")
      [] s = "missing_post_type" -> Variant("MissingPostType")
      [] s = "team_added_to_org" -> Variant("TeamAddedToOrg")
      [] s = "request_timeout" -> Variant("RequestTimeout")
      [] OTHER -> Unknown(s)

(* impl Into<Result<CreateResponse, CreateError<E>>> for CreateResponse *)
CreateResponseInto(self) ==
    IF self.ok THEN Ok(self) ELSE Err(CreateErrorFrom(unwrap_or(self.error, "")))

(* create: the parameter list handed to the sender *)
create_params(tok, req) ==
    filter_map(<<Some(<<"token", tok>>),
                 Some(<<"name", req.name>>),
                 MapBool("validate", req.validate)>>)

create_url == get_slack_url_for_method("channels.create")

(* struct CreateRequest: the values drawn for it *)
CreateRequest ==
    [name : StrValues("name"),
     validate : OptBool]

(***************************************************************************)
(* channels.history                                                      *)
(***************************************************************************)
(* The domain variants of enum HistoryError (every variant but MalformedResponse, Unknown, Client) *)
HistoryError ==
    {"ChannelNotFound", "InvalidTsLatest", "InvalidTsOldest", "NotAuthed",
     "InvalidAuth", "AccountInactive", "InvalidArgName", "InvalidArrayArg",
     "InvalidCharset", "InvalidFormData", "InvalidPostType", "MissingPostType",
     "TeamAddedToOrg", "RequestTimeout"}

(* Error::description for HistoryError *)
HistoryErrorDescription(e) ==
    CASE e.tag = "ChannelNotFound" ->
           "channel_not_found: Value passed for channel was invalid."
      [] e.tag = "InvalidTsLatest" ->
           "invalid_ts_latest: Value passed for latest was invalid"
      [] e.tag = "InvalidTsOldest" ->
           "invalid_ts_oldest: Value passed for oldest was invalid"
      [] e.tag = "NotAuthed" ->
           "not_authed: No authentication token provided."
      [] e.tag = "InvalidAuth" ->
           "invalid_auth: Invalid authentication token."
      [] e.tag = "AccountInactive" ->
           "account_inactive: Authentication token is for a deleted user or team."
      [] e.tag = "InvalidArgName" ->
           "invalid_arg_name: The method was passed an argument whose name falls outside the bounds of common decency. This includes very long names and names with non-alphanumeric characters other than _. If you get this error, it is typically an indication that you have made a very malformed API call."
      [] e.tag = "InvalidArrayArg" ->
           "invalid_array_arg: The method was passed a PHP-style array argument (e.g. with a name like foo[7]). These are never valid with the Slack API."
      [] e.tag = "InvalidCharset" ->
           "invalid_charset: The method was called via a POST request, but the charset specified in the Content-Type header was invalid. Valid charset names are: utf-8 iso-8859-1."
      [] e.tag = "InvalidFormData" ->
           "invalid_form_data: The method was called via a POST request with Content-Type application/x-www-form-urlencoded or multipart/form-data, but the form data was either missing or syntactically invalid."
      [] e.tag = "InvalidPostType" ->
           "invalid_post_type: The method was called via a POST request, but the specified Content-Type was invalid. Valid types are: application/x-www-form-urlencoded multipart/form-data text/plain."
      [] e.tag = "MissingPostType" ->
           "missing_post_type: The method was called via a POST request and included a data payload, but the request did not include a Content-Type header."
      [] e.tag = "TeamAddedToOrg" ->
           "team_added_to_org: The team associated with your request is currently undergoing migration to an Enterprise Organization. Web API and other platform operations will be intermittently unavailable until the transition is complete."
      [] e.tag = "RequestTimeout" ->
           "request_timeout: The method was called via a POST request, but the POST data was either missing or truncated."
      [] e.tag = "MalformedResponse" -> e.e
      [] e.tag = "Unknown" -> e.s
      [] e.tag = "Client" -> e.e

(* impl From<&str> for HistoryError *)
HistoryErrorFrom(s) ==
    CASE s = "channel_not_found" -> Variant("ChannelNotFound")
      [] s = "invalid_ts_latest" -> Variant("InvalidTsLatest")
      [] s = "invalid_ts_oldest" -> Variant("InvalidTsOldest")
      [] s = "not_authed" -> Variant("NotAuthed")
      [] s = "invalid_auth" -> Variant("InvalidAuth")
      [] s = "account_inactive" -> Variant("AccountInactive")
      [] s = "invalid_arg_name" -> Variant("InvalidArgName")
      [] s = "invalid_array_arg" -> Variant("InvalidArrayArg")
      [] s = "invalid_charset" -> Variant("InvalidCharset")
      [] s = "invalid_form_data" -> Variant("InvalidFormData")
      [] s = "invalid_post_type" -> Variant("InvalidPostType")
      [] s = "missing_post_type" -> Variant("MissingPostType")
      [] s = "team_added_to_org" -> Variant("TeamAddedToOrg")
      [] s = "request_timeout" -> Variant("RequestTimeout")
      [] OTHER -> Unknown(s)

(* impl Into<Result<HistoryResponse, HistoryError<E>>> for HistoryResponse *)
HistoryResponseInto(self) ==
    IF self.ok THEN Ok(self) ELSE Err(HistoryErrorFrom(unwrap_or(self.error, "")))

\* The parameter list with count placed before inclusive
history_paramsCountFirst(tok, req) ==
    filter_map(<<Some(<<"token", tok>>),
                 Some(<<"channel", req.channel>>),
                 MapStr("latest", req.latest),
                 MapStr("oldest", req.oldest),
                 MapStr("count", MapToString(req.count)),
                 MapBool("inclusive", req.inclusive),
                 MapBool("unreads", req.unreads)>>)

(* history: the parameter list handed to the sender *)
history_params(tok, req) ==
    filter_map(<<Some(<<"token", tok>>),
                 Some(<<"channel", req.channel>>),
                 MapStr("latest", req.latest),
                 MapStr("oldest", req.oldest),
                 MapBool("inclusive", req.inclusive),
                 MapStr("count", MapToString(req.count)),
                 MapBool("unreads", req.unreads)>>)

history_url == get_slack_url_for_method("channels.history")

(* struct HistoryRequest: the values drawn for it *)
HistoryRequest ==
    [channel : StrValues("channel"),
     latest : OptStr("latest"),
     oldest : OptStr("oldest"),
     inclusive : OptBool,
     count : OptU32,
     unreads : OptBool]

(***************************************************************************)
(* channels.info                                                         *)
(***************************************************************************)
(* The domain variants of enum InfoError (every variant but MalformedResponse, Unknown, Client) *)
InfoError ==
    {"ChannelNotFound", "NotAuthed", "InvalidAuth", "AccountInactive",
     "InvalidArgName", "InvalidArrayArg", "InvalidCharset", "InvalidFormData",
     "InvalidPostType", "MissingPostType", "TeamAddedToOrg", "RequestTimeout"}

(* Error::description for InfoError *)
InfoErrorDescription(e) ==
    CASE e.tag = "ChannelNotFound" ->
           "channel_not_found: Value passed for channel was invalid."
      [] e.tag = "NotAuthed" ->
           "not_authed: No authentication token provided."
      [] e.tag = "InvalidAuth" ->
           "invalid_auth: Invalid authentication token."
      [] e.tag = "AccountInactive" ->
           "account_inactive: Authentication token is for a deleted user or team."
      [] e.tag = "InvalidArgName" ->
           "invalid_arg_name: The method was passed an argument whose name falls outside the bounds of common decency. This includes very long names and names with non-alphanumeric characters other than _. If you get this error, it is typically an indication that you have made a very malformed API call."
      [] e.tag = "InvalidArrayArg" ->
           "invalid_array_arg: The method was passed a PHP-style array argument (e.g. with a name like foo[7]). These are never valid with the Slack API."
      [] e.tag = "InvalidCharset" ->
           "invalid_charset: The method was called via a POST request, but the charset specified in the Content-Type header was invalid. Valid charset names are: utf-8 iso-8859-1."
      [] e.tag = "InvalidFormData" ->
           "invalid_form_data: The method was called via a POST request with Content-Type application/x-www-form-urlencoded or multipart/form-data, but the form data was either missing or syntactically invalid."
      [] e.tag = "InvalidPostType" ->
           "invalid_post_type: The method was called via a POST request, but the specified Content-Type was invalid. Valid types are: application/x-www-form-urlencoded multipart/form-data text/plain."
      [] e.tag = "MissingPostType" ->
           "missing_post_type: The method was called via a POST request and included a data payload, but the request did not include a Content-Type header."
      [] e.tag = "TeamAddedToOrg" ->
           "team_added_to_org: The team associated with your request is currently undergoing migration to an Enterprise Organization. Web API and other platform operations will be intermittently unavailable until the transition is complete."
      [] e.tag = "RequestTimeout" ->
           "request_timeout: The method was called via a POST request, but the POST data was either missing or truncated."
      [] e.tag = "MalformedResponse" -> e.e
      [] e.tag = "Unknown" -> e.s
      [] e.tag = "Client" -> e.e

\* The table without the arm for channel_not_found
InfoErrorFromNoChannelNotFound(s) ==
    CASE s = "not_authed" -> Variant("NotAuthed")
      [] s = "invalid_auth" -> Variant("InvalidAuth")
      [] s = "account_inactive" -> Variant("AccountInactive")
      [] s = "invalid_arg_name" -> Variant("InvalidArgName")
      [] s = "invalid_array_arg" -> Variant("InvalidArrayArg")
      [] s = "invalid_charset" -> Variant("InvalidCharset")
      [] s = "invalid_form_data" -> Variant("InvalidFormData")
      [] s = "invalid_post_type" -> Variant("InvalidPostType")
      [] s = "missing_post_type" -> Variant("MissingPostType")
      [] s = "team_added_to_org" -> Variant("TeamAddedToOrg")
      [] s = "request_timeout" -> Variant("RequestTimeout")
      [] OTHER -> Unknown(s)

(* impl From<&str> for InfoError *)
InfoErrorFrom(s) ==
    CASE s = "channel_not_found" -> Variant("ChannelNotFound")
      [] s = "not_authed" -> Variant("NotAuthed")
      [] s = "invalid_auth" -> Variant("InvalidAuth")
      [] s = "account_inactive" -> Variant("AccountInactive")
      [] s = "invalid_arg_name" -> Variant("InvalidArgName")
      [] s = "invalid_array_arg" -> Variant("InvalidArrayArg")
      [] s = "invalid_charset" -> Variant("InvalidCharset")
      [] s = "invalid_form_data" -> Variant("InvalidFormData")
      [] s = "invalid_post_type" -> Variant("InvalidPostType")
      [] s = "missing_post_type" -> Variant("MissingPostType")
      [] s = "team_added_to_org" -> Variant("TeamAddedToOrg")
      [] s = "request_timeout" -> Variant("RequestTimeout")
      [] OTHER -> Unknown(s)

(* impl Into<Result<InfoResponse, InfoError<E>>> for InfoResponse *)
InfoResponseInto(self) ==
    IF self.ok THEN Ok(self) ELSE Err(InfoErrorFrom(unwrap_or(self.error, "")))

(* info: the parameter list handed to the sender *)
info_params(tok, req) ==
    filter_map(<<Some(<<"token", tok>>),
                 Some(<<"channel", req.channel>>)>>)

info_url == get_slack_url_for_method("channels.info")

(* struct InfoRequest: the values drawn for it *)
InfoRequest ==
    [channel : StrValues("channel")]

(***************************************************************************)
(* channels.invite                                                       *)
(***************************************************************************)
(* The domain variants of enum InviteError (every variant but MalformedResponse, Unknown, Client) *)
InviteError ==
    {"ChannelNotFound", "UserNotFound", "CantInviteSelf", "NotInChannel",
     "AlreadyInChannel", "IsArchived", "CantInvite", "UraMaxChannels",
     "NotAuthed", "InvalidAuth", "AccountInactive", "UserIsBot",
     "UserIsUltraRestricted", "InvalidArgName", "InvalidArrayArg", "InvalidCharset",
     "InvalidFormData", "InvalidPostType", "MissingPostType", "TeamAddedToOrg",
     "RequestTimeout"}

\* The descriptions with the text of CantInviteSelf starting with the code of CantInvite
InviteErrorDescriptionCopiedCode(e) ==
    CASE e.tag = "ChannelNotFound" ->
           "channel_not_found: Value passed for channel was invalid."
      [] e.tag = "UserNotFound" ->
           "user_not_found: Value passed for user was invalid."
      [] e.tag = "CantInviteSelf" ->
           "cant_invite: Authenticated user cannot invite themselves to a channel."
      [] e.tag = "NotInChannel" ->
           "not_in_channel: Authenticated user is not in the channel."
      [] e.tag = "AlreadyInChannel" ->
           "already_in_channel: Invited user is already in the channel."
      [] e.tag = "IsArchived" ->
           "is_archived: Channel has been archived."
      [] e.tag = "CantInvite" ->
           "cant_invite: User cannot be invited to this channel."
      [] e.tag = "UraMaxChannels" ->
           "ura_max_channels: URA is already in the maximum number of channels."
      [] e.tag = "NotAuthed" ->
           "not_authed: No authentication token provided."
      [] e.tag = "InvalidAuth" ->
           "invalid_auth: Invalid authentication token."
      [] e.tag = "AccountInactive" ->
           "account_inactive: Authentication token is for a deleted user or team."
      [] e.tag = "UserIsBot" ->
           "user_is_bot: This method cannot be called by a bot user."
      [] e.tag = "UserIsUltraRestricted" ->
           "user_is_ultra_restricted: This method cannot be called by a single channel guest."
      [] e.tag = "InvalidArgName" ->
           "invalid_arg_name: The method was passed an argument whose name falls outside the bounds of common decency. This includes very long names and names with non-alphanumeric characters other than _. If you get this error, it is typically an indication that you have made a very malformed API call."
      [] e.tag = "InvalidArrayArg" ->
           "invalid_array_arg: The method was passed a PHP-style array argument (e.g. with a name like foo[7]). These are never valid with the Slack API."
      [] e.tag = "InvalidCharset" ->
           "invalid_charset: The method was called via a POST request, but the charset specified in the Content-Type header was invalid. Valid charset names are: utf-8 iso-8859-1."
      [] e.tag = "InvalidFormData" ->
           "invalid_form_data: The method was called via a POST request with Content-Type application/x-www-form-urlencoded or multipart/form-data, but the form data was either missing or syntactically invalid."
      [] e.tag = "InvalidPostType" ->
           "invalid_post_type: The method was called via a POST request, but the specified Content-Type was invalid. Valid types are: application/x-www-form-urlencoded multipart/form-data text/plain."
      [] e.tag = "MissingPostType" ->
           "missing_post_type: The method was called via a POST request and included a data payload, but the request did not include a Content-Type header."
      [] e.tag = "TeamAddedToOrg" ->
           "team_added_to_org: The team associated with your request is currently undergoing migration to an Enterprise Organization. Web API and other platform operations will be intermittently unavailable until the transition is complete."
      [] e.tag = "RequestTimeout" ->
           "request_timeout: The method was called via a POST request, but the POST data was either missing or truncated."
      [] e.tag = "MalformedResponse" -> e.e
      [] e.tag = "Unknown" -> e.s
      [] e.tag = "Client" -> e.e

(* Error::description for InviteError *)
InviteErrorDescription(e) ==
    CASE e.tag = "ChannelNotFound" ->
           "channel_not_found: Value passed for channel was invalid."
      [] e.tag = "UserNotFound" ->
           "user_not_found: Value passed for user was invalid."
      [] e.tag = "CantInviteSelf" ->
           "cant_invite_self: Authenticated user cannot invite themselves to a channel."
      [] e.tag = "NotInChannel" ->
           "not_in_channel: Authenticated user is not in the channel."
      [] e.tag = "AlreadyInChannel" ->
           "already_in_channel: Invited user is already in the channel."
      [] e.tag = "IsArchived" ->
           "is_archived: Channel has been archived."
      [] e.tag = "CantInvite" ->
           "cant_invite: User cannot be invited to this channel."
      [] e.tag = "UraMaxChannels" ->
           "ura_max_channels: URA is already in the maximum number of channels."
      [] e.tag = "NotAuthed" ->
           "not_authed: No authentication token provided."
      [] e.tag = "InvalidAuth" ->
           "invalid_auth: Invalid authentication token."
      [] e.tag = "AccountInactive" ->
           "account_inactive: Authentication token is for a deleted user or team."
      [] e.tag = "UserIsBot" ->
           "user_is_bot: This method cannot be called by a bot user."
      [] e.tag = "UserIsUltraRestricted" ->
           "user_is_ultra_restricted: This method cannot be called by a single channel guest."
      [] e.tag = "InvalidArgName" ->
           "invalid_arg_name: The method was passed an argument whose name falls outside the bounds of common decency. This includes very long names and names with non-alphanumeric characters other than _. If you get this error, it is typically an indication that you have made a very malformed API call."
      [] e.tag = "InvalidArrayArg" ->
           "invalid_array_arg: The method was passed a PHP-style array argument (e.g. with a name like foo[7]). These are never valid with the Slack API."
      [] e.tag = "InvalidCharset" ->
           "invalid_charset: The method was called via a POST request, but the charset specified in the Content-Type header was invalid. Valid charset names are: utf-8 iso-8859-1."
      [] e.tag = "InvalidFormData" ->
           "invalid_form_data: The method was called via a POST request with Content-Type application/x-www-form-urlencoded or multipart/form-data, but the form data was either missing or syntactically invalid."
      [] e.tag = "InvalidPostType" ->
           "invalid_post_type: The method was called via a POST request, but the specified Content-Type was invalid. Valid types are: application/x-www-form-urlencoded multipart/form-data text/plain."
      [] e.tag = "MissingPostType" ->
           "missing_post_type: The method was called via a POST request and included a data payload, but the request did not include a Content-Type header."
      [] e.tag = "TeamAddedToOrg" ->
           "team_added_to_org: The team associated with your request is currently undergoing migration to an Enterprise Organization. Web API and other platform operations will be intermittently unavailable until the transition is complete."
      [] e.tag = "RequestTimeout" ->
           "request_timeout: The method was called via a POST request, but the POST data was either missing or truncated."
      [] e.tag = "MalformedResponse" -> e.e
      [] e.tag = "Unknown" -> e.s
      [] e.tag = "Client" -> e.e

\* The table without the arm for already_in_channel
InviteErrorFromNoAlreadyInChannel(s) ==
    CASE s = "channel_not_found" -> Variant("ChannelNotFound")
      [] s = "user_not_found" -> Variant("UserNotFound")
      [] s = "cant_invite_self" -> Variant("CantInviteSelf")
      [] s = "not_in_channel" -> Variant("NotInChannel")
      [] s = "is_archived" -> Variant("IsArchived")
      [] s = "cant_invite" -> Variant("CantInvite")
      [] s = "ura_max_channels" -> Variant("UraMaxChannels")
      [] s = "not_authed" -> Variant("NotAuthed")
      [] s = "invalid_auth" -> Variant("InvalidAuth")
      [] s = "account_inactive" -> Variant("AccountInactive")
      [] s = "user_is_bot" -> Variant("UserIsBot")
      [] s = "user_is_ultra_restricted" -> Variant("UserIsUltraRestricted")
      [] s = "invalid_arg_name" -> Variant("InvalidArgName")
      [] s = "invalid_array_arg" -> Variant("InvalidArrayArg")
      [] s = "invalid_charset" -> Variant("InvalidCharset")
      [] s = "invalid_form_data" -> Variant("InvalidFormData")
      [] s = "invalid_post_type" -> Variant("InvalidPostType")
      [] s = "missing_post_type" -> Variant("MissingPostType")
      [] s = "team_added_to_org" -> Variant("TeamAddedToOrg")
      [] s = "request_timeout" -> Variant("RequestTimeout")
      [] OTHER -> Unknown(s)

(* impl From<&str> for InviteError *)
InviteErrorFrom(s) ==
    CASE s = "channel_not_found" -> Variant("ChannelNotFound")
      [] s = "user_not_found" -> Variant("UserNotFound")
      [] s = "cant_invite_self" -> Variant("CantInviteSelf")
      [] s = "not_in_channel" -> Variant("NotInChannel")
      [] s = "already_in_channel" -> Variant("AlreadyInChannel")
      [] s = "is_archived" -> Variant("IsArchived")
      [] s = "cant_invite" -> Variant("CantInvite")
      [] s = "ura_max_channels" -> Variant("UraMaxChannels")
      [] s = "not_authed" -> Variant("NotAuthed")
      [] s = "invalid_auth" -> Variant("InvalidAuth")
      [] s = "account_inactive" -> Variant("AccountInactive")
      [] s = "user_is_bot" -> Variant("UserIsBot")
      [] s = "user_is_ultra_restricted" -> Variant("UserIsUltraRestricted")
      [] s = "invalid_arg_name" -> Variant("InvalidArgName")
      [] s = "invalid_array_arg" -> Variant("InvalidArrayArg")
      [] s = "invalid_charset" -> Variant("InvalidCharset")
      [] s = "invalid_form_data" -> Variant("InvalidFormData")
      [] s = "invalid_post_type" -> Variant("InvalidPostType")
      [] s = "missing_post_type" -> Variant("MissingPostType")
      [] s = "team_added_to_org" -> Variant("TeamAddedToOrg")
      [] s = "request_timeout" -> Variant("RequestTimeout")
      [] OTHER -> Unknown(s)

(* impl Into<Result<InviteResponse, InviteError<E>>> for InviteResponse *)
InviteResponseInto(self) ==
    IF self.ok THEN Ok(self) ELSE Err(InviteErrorFrom(unwrap_or(self.error, "")))

(* invite: the parameter list handed to the sender *)
invite_params(tok, req) ==
    filter_map(<<Some(<<"token", tok>>),
                 Some(<<"channel", req.channel>>),
                 Some(<<"user", req.user>>)>>)

invite_url == get_slack_url_for_method("channels.invite")

(* struct InviteRequest: the values drawn for it *)
InviteRequest ==
    [channel : StrValues("channel"),
     user : StrValues("user")]

(***************************************************************************)
(* channels.join                                                         *)
(***************************************************************************)
(* The domain variants of enum JoinError (every variant but MalformedResponse, Unknown, Client) *)
JoinError ==
    {"ChannelNotFound", "NameTaken", "RestrictedAction", "NoChannel",
     "IsArchived", "InvalidNameRequired", "InvalidNamePunctuation", "InvalidNameMaxlength",
     "InvalidNameSpecials", "InvalidName", "NotAuthed", "InvalidAuth",
     "AccountInactive", "UserIsBot", "UserIsRestricted", "InvalidArgName",
     "InvalidArrayArg", "InvalidCharset", "InvalidFormData", "InvalidPostType",
     "MissingPostType", "TeamAddedToOrg", "RequestTimeout"}

(* Error::description for JoinError *)
JoinErrorDescription(e) ==
    CASE e.tag = "ChannelNotFound" ->
           "channel_not_found: Value passed for channel was invalid."
      [] e.tag = "NameTaken" ->
           "name_taken: A channel cannot be created with the given name."
      [] e.tag = "RestrictedAction" ->
           "restricted_action: A team preference prevents the authenticated user from creating channels."
      [] e.tag = "NoChannel" ->
           "no_channel: Value passed for name was empty."
      [] e.tag = "IsArchived" ->
           "is_archived: Channel has been archived."
      [] e.tag = "InvalidNameRequired" ->
           "invalid_name_required: Value passed for name was empty."
      [] e.tag = "InvalidNamePunctuation" ->
           "invalid_name_punctuation: Value passed for name contained only punctuation."
      [] e.tag = "InvalidNameMaxlength" ->
           "invalid_name_maxlength: Value passed for name exceeded max length."
      [] e.tag = "InvalidNameSpecials" ->
           "invalid_name_specials: Value passed for name contained unallowed special characters or upper case characters."
      [] e.tag = "InvalidName" ->
           "invalid_name: Value passed for name was invalid."
      [] e.tag = "NotAuthed" ->
           "not_authed: No authentication token provided."
      [] e.tag = "InvalidAuth" ->
           "invalid_auth: Invalid authentication token."
      [] e.tag = "AccountInactive" ->
           "account_inactive: Authentication token is for a deleted user or team."
      [] e.tag = "UserIsBot" ->
           "user_is_bot: This method cannot be called by a bot user."
      [] e.tag = "UserIsRestricted" ->
           "user_is_restricted: This method cannot be called by a restricted user or single channel guest."
      [] e.tag = "InvalidArgName" ->
           "invalid_arg_name: The method was passed an argument whose name falls outside the bounds of common decency. This includes very long names and names with non-alphanumeric characters other than _. If you get this error, it is typically an indication that you have made a very malformed API call."
      [] e.tag = "InvalidArrayArg" ->
           "invalid_array_arg: The method was passed a PHP-style array argument (e.g. with a name like foo[7]). These are never valid with the Slack API."
      [] e.tag = "InvalidCharset" ->
           "invalid_charset: The method was called via a POST request, but the charset specified in the Content-Type header was invalid. Valid charset names are: utf-8 iso-8859-1."
      [] e.tag = "InvalidFormData" ->
           "invalid_form_data: The method was called via a POST request with Content-Type application/x-www-form-urlencoded or multipart/form-data, but the form data was either missing or syntactically invalid."
      [] e.tag = "InvalidPostType" ->
           "invalid_post_type: The method was called via a POST request, but the specified Content-Type was invalid. Valid types are: application/x-www-form-urlencoded multipart/form-data text/plain."
      [] e.tag = "MissingPostType" ->
           "missing_post_type: The method was called via a POST request and included a data payload, but the request did not include a Content-Type header."
      [] e.tag = "TeamAddedToOrg" ->
           "team_added_to_org: The team associated with your request is currently undergoing migration to an Enterprise Organization. Web API and other platform operations will be intermittently unavailable until the transition is complete."
      [] e.tag = "RequestTimeout" ->
           "request_timeout: The method was called via a POST request, but the POST data was either missing or truncated."
      [] e.tag = "MalformedResponse" -> e.e
      [] e.tag = "Unknown" -> e.s
      [] e.tag = "Client" -> e.e

\* The table with a fallback arm that panics instead of returning a variant
JoinErrorFromPartial(s) ==
    CASE s = "channel_not_found" -> Variant("ChannelNotFound")
      [] s = "name_taken" -> Variant("NameTaken")
      [] s = "restricted_action" -> Variant("RestrictedAction")
      [] s = "no_channel" -> Variant("NoChannel")
      [] s = "is_archived" -> Variant("IsArchived")
      [] s = "invalid_name_required" -> Variant("InvalidNameRequired")
      [] s = "invalid_name_punctuation" -> Variant("InvalidNamePunctuation")
      [] s = "invalid_name_maxlength" -> Variant("InvalidNameMaxlength")
      [] s = "invalid_name_specials" -> Variant("InvalidNameSpecials")
      [] s = "invalid_name" -> Variant("InvalidName")
      [] s = "not_authed" -> Variant("NotAuthed")
      [] s = "invalid_auth" -> Variant("InvalidAuth")
      [] s = "account_inactive" -> Variant("AccountInactive")
      [] s = "user_is_bot" -> Variant("UserIsBot")
      [] s = "user_is_restricted" -> Variant("UserIsRestricted")
      [] s = "invalid_arg_name" -> Variant("InvalidArgName")
      [] s = "invalid_array_arg" -> Variant("InvalidArrayArg")
      [] s = "invalid_charset" -> Variant("InvalidCharset")
      [] s = "invalid_form_data" -> Variant("InvalidFormData")
      [] s = "invalid_post_type" -> Variant("InvalidPostType")
      [] s = "missing_post_type" -> Variant("MissingPostType")
      [] s = "team_added_to_org" -> Variant("TeamAddedToOrg")
      [] s = "request_timeout" -> Variant("RequestTimeout")
      [] OTHER -> [tag |-> "panic"]

(* impl From<&str> for JoinError *)
JoinErrorFrom(s) ==
    CASE s = "channel_not_found" -> Variant("ChannelNotFound")
      [] s = "name_taken" -> Variant("NameTaken")
      [] s = "restricted_action" -> Variant("RestrictedAction")
      [] s = "no_channel" -> Variant("NoChannel")
      [] s = "is_archived" -> Variant("IsArchived")
      [] s = "invalid_name_required" -> Variant("InvalidNameRequired")
      [] s = "invalid_name_punctuation" -> Variant("InvalidNamePunctuation")
      [] s = "invalid_name_maxlength" -> Variant("InvalidNameMaxlength")
      [] s = "invalid_name_specials" -> Variant("InvalidNameSpecials")
      [] s = "invalid_name" -> Variant("InvalidName")
      [] s = "not_authed" -> Variant("NotAuthed")
      [] s = "invalid_auth" -> Variant("InvalidAuth")
      [] s = "account_inactive" -> Variant("AccountInactive")
      [] s = "user_is_bot" -> Variant("UserIsBot")
      [] s = "user_is_restricted" -> Variant("UserIsRestricted")
      [] s = "invalid_arg_name" -> Variant("InvalidArgName")
      [] s = "invalid_array_arg" -> Variant("InvalidArrayArg")
      [] s = "invalid_charset" -> Variant("InvalidCharset")
      [] s = "invalid_form_data" -> Variant("InvalidFormData")
      [] s = "invalid_post_type" -> Variant("InvalidPostType")
      [] s = "missing_post_type" -> Variant("MissingPostType")
      [] s = "team_added_to_org" -> Variant("TeamAddedToOrg")
      [] s = "request_timeout" -> Variant("RequestTimeout")
      [] OTHER -> Unknown(s)

(* impl Into<Result<JoinResponse, JoinError<E>>> for JoinResponse *)
JoinResponseInto(self) ==
    IF self.ok THEN Ok(self) ELSE Err(JoinErrorFrom(unwrap_or(self.error, "")))

(* join: the parameter list handed to the sender *)
join_params(tok, req) ==
    filter_map(<<Some(<<"token", tok>>),
                 Some(<<"name", req.name>>),
                 MapBool("validate", req.validate)>>)

join_url == get_slack_url_for_method("channels.join")

(* struct JoinRequest: the values drawn for it *)
JoinRequest ==
    [name : StrValues("name"),
     validate : OptBool]

(***************************************************************************)
(* channels.kick                                                         *)
(***************************************************************************)
(* The domain variants of enum KickError (every variant but MalformedResponse, Unknown, Client) *)
KickError ==
    {"ChannelNotFound", "UserNotFound", "CantKickSelf", "NotInChannel",
     "CantKickFromGeneral", "RestrictedAction", "NotAuthed", "InvalidAuth",
     "AccountInactive", "UserIsBot", "UserIsRestricted", "InvalidArgName",
     "InvalidArrayArg", "InvalidCharset", "InvalidFormData", "InvalidPostType",
     "MissingPostType", "TeamAddedToOrg", "RequestTimeout"}

(* Error::description for KickError *)
KickErrorDescription(e) ==
    CASE e.tag = "ChannelNotFound" ->
           "channel_not_found: Value passed for channel was invalid."
      [] e.tag = "UserNotFound" ->
           "user_not_found: Value passed for user was invalid."
      [] e.tag = "CantKickSelf" ->
           "cant_kick_self: Authenticated user can't kick themselves from a channel."
      [] e.tag = "NotInChannel" ->
           "not_in_channel: User was not in the channel."
      [] e.tag = "CantKickFromGeneral" ->
           "cant_kick_from_general: User cannot be removed from #general."
      [] e.tag = "RestrictedAction" ->
           "restricted_action: A team preference prevents the authenticated user from kicking."
      [] e.tag = "NotAuthed" ->
           "not_authed: No authentication token provided."
      [] e.tag = "InvalidAuth" ->
           "invalid_auth: Invalid authentication token."
      [] e.tag = "AccountInactive" ->
           "account_inactive: Authentication token is for a deleted user or team."
      [] e.tag = "UserIsBot" ->
           "user_is_bot: This method cannot be called by a bot user."
      [] e.tag = "UserIsRestricted" ->
           "user_is_restricted: This method cannot be called by a restricted user or single channel guest."
      [] e.tag = "InvalidArgName" ->
           "invalid_arg_name: The method was passed an argument whose name falls outside the bounds of common decency. This includes very long names and names with non-alphanumeric characters other than _. If you get this error, it is typically an indication that you have made a very malformed API call."
      [] e.tag = "InvalidArrayArg" ->
           "invalid_array_arg: The method was passed a PHP-style array argument (e.g. with a name like foo[7]). These are never valid with the Slack API."
      [] e.tag = "InvalidCharset" ->
           "invalid_charset: The method was called via a POST request, but the charset specified in the Content-Type header was invalid. Valid charset names are: utf-8 iso-8859-1."
      [] e.tag = "InvalidFormData" ->
           "invalid_form_data: The method was called via a POST request with Content-Type application/x-www-form-urlencoded or multipart/form-data, but the form data was either missing or syntactically invalid."
      [] e.tag = "InvalidPostType" ->
           "invalid_post_type: The method was called via a POST request, but the specified Content-Type was invalid. Valid types are: application/x-www-form-urlencoded multipart/form-data text/plain."
      [] e.tag = "MissingPostType" ->
           "missing_post_type: The method was called via a POST request and included a data payload, but the request did not include a Content-Type header."
      [] e.tag = "TeamAddedToOrg" ->
           "team_added_to_org: The team associated with your request is currently undergoing migration to an Enterprise Organization. Web API and other platform operations will be intermittently unavailable until the transition is complete."
      [] e.tag = "RequestTimeout" ->
           "request_timeout: The method was called via a POST request, but the POST data was either missing or truncated."
      [] e.tag = "MalformedResponse" -> e.e
      [] e.tag = "Unknown" -> e.s
      [] e.tag = "Client" -> e.e

(* impl From<&str> for KickError *)
KickErrorFrom(s) ==
    CASE s = "channel_not_found" -> Variant("ChannelNotFound")
      [] s = "user_not_found" -> Variant("UserNotFound")
      [] s = "cant_kick_self" -> Variant("CantKickSelf")
      [] s = "not_in_channel" -> Variant("NotInChannel")
      [] s = "cant_kick_from_general" -> Variant("CantKickFromGeneral")
      [] s = "restricted_action" -> Variant("RestrictedAction")
      [] s = "not_authed" -> Variant("NotAuthed")
      [] s = "invalid_auth" -> Variant("InvalidAuth")
      [] s = "account_inactive" -> Variant("AccountInactive")
      [] s = "user_is_bot" -> Variant("UserIsBot")
      [] s = "user_is_restricted" -> Variant("UserIsRestricted")
      [] s = "invalid_arg_name" -> Variant("InvalidArgName")
      [] s = "invalid_array_arg" -> Variant("InvalidArrayArg")
      [] s = "invalid_charset" -> Variant("InvalidCharset")
      [] s = "invalid_form_data" -> Variant("InvalidFormData")
      [] s = "invalid_post_type" -> Variant("InvalidPostType")
      [] s = "missing_post_type" -> Variant("MissingPostType")
      [] s = "team_added_to_org" -> Variant("TeamAddedToOrg")
      [] s = "request_timeout" -> Variant("RequestTimeout")
      [] OTHER -> Unknown(s)

\* into that returns the Response as success whatever ok holds
KickResponseIntoAlwaysOk(self) == Ok(self)

(* impl Into<Result<KickResponse, KickError<E>>> for KickResponse *)
KickResponseInto(self) ==
    IF self.ok THEN Ok(self) ELSE Err(KickErrorFrom(unwrap_or(self.error, "")))

(* kick: the parameter list handed to the sender *)
kick_params(tok, req) ==
    filter_map(<<Some(<<"token", tok>>),
                 Some(<<"channel", req.channel>>),
                 Some(<<"user", req.user>>)>>)

kick_url == get_slack_url_for_method("channels.kick")

(* struct KickRequest: the values drawn for it *)
KickRequest ==
    [channel : StrValues("channel"),
     user : StrValues("user")]

(***************************************************************************)
(* channels.leave                                                        *)
(***************************************************************************)
(* The domain variants of enum LeaveError (every variant but MalformedResponse, Unknown, Client) *)
LeaveError ==
    {"ChannelNotFound", "IsArchived", "CantLeaveGeneral", "NotAuthed",
     "InvalidAuth", "AccountInactive", "UserIsBot", "UserIsRestricted",
     "InvalidArgName", "InvalidArrayArg", "InvalidCharset", "InvalidFormData",
     "InvalidPostType", "MissingPostType", "TeamAddedToOrg", "RequestTimeout"}

(* Error::description for LeaveError *)
LeaveErrorDescription(e) ==
    CASE e.tag = "ChannelNotFound" ->
           "channel_not_found: Value passed for channel was invalid."
      [] e.tag = "IsArchived" ->
           "is_archived: Channel has been archived."
      [] e.tag = "CantLeaveGeneral" ->
           "cant_leave_general: Authenticated user cannot leave the general channel"
      [] e.tag = "NotAuthed" ->
           "not_authed: No authentication token provided."
      [] e.tag = "InvalidAuth" ->
           "invalid_auth: Invalid authentication token."
      [] e.tag = "AccountInactive" ->
           "account_inactive: Authentication token is for a deleted user or team."
      [] e.tag = "UserIsBot" ->
           "user_is_bot: This method cannot be called by a bot user."
      [] e.tag = "UserIsRestricted" ->
           "user_is_restricted: This method cannot be called by a restricted user or single channel guest."
      [] e.tag = "InvalidArgName" ->
           "invalid_arg_name: The method was passed an argument whose name falls outside the bounds of common decency. This includes very long names and names with non-alphanumeric characters other than _. If you get this error, it is typically an indication that you have made a very malformed API call."
      [] e.tag = "InvalidArrayArg" ->
           "invalid_array_arg: The method was passed a PHP-style array argument (e.g. with a name like foo[7]). These are never valid with the Slack API."
      [] e.tag = "InvalidCharset" ->
           "invalid_charset: The method was called via a POST request, but the charset specified in the Content-Type header was invalid. Valid charset names are: utf-8 iso-8859-1."
      [] e.tag = "InvalidFormData" ->
           "invalid_form_data: The method was called via a POST request with Content-Type application/x-www-form-urlencoded or multipart/form-data, but the form data was either missing or syntactically invalid."
      [] e.tag = "InvalidPostType" ->
           "invalid_post_type: The method was called via a POST request, but the specified Content-Type was invalid. Valid types are: application/x-www-form-urlencoded multipart/form-data text/plain."
      [] e.tag = "MissingPostType" ->
           "missing_post_type: The method was called via a POST request and included a data payload, but the request did not include a Content-Type header."
      [] e.tag = "TeamAddedToOrg" ->
           "team_added_to_org: The team associated with your request is currently undergoing migration to an Enterprise Organization. Web API and other platform operations will be intermittently unavailable until the transition is complete."
      [] e.tag = "RequestTimeout" ->
           "request_timeout: The method was called via a POST request, but the POST data was either missing or truncated."
      [] e.tag = "MalformedResponse" -> e.e
      [] e.tag = "Unknown" -> e.s
      [] e.tag = "Client" -> e.e

(* impl From<&str> for LeaveError *)
LeaveErrorFrom(s) ==
    CASE s = "channel_not_found" -> Variant("ChannelNotFound")
      [] s = "is_archived" -> Variant("IsArchived")
      [] s = "cant_leave_general" -> Variant("CantLeaveGeneral")
      [] s = "not_authed" -> Variant("NotAuthed")
      [] s = "invalid_auth" -> Variant("InvalidAuth")
      [] s = "account_inactive" -> Variant("AccountInactive")
      [] s = "user_is_bot" -> Variant("UserIsBot")
      [] s = "user_is_restricted" -> Variant("UserIsRestricted")
      [] s = "invalid_arg_name" -> Variant("InvalidArgName")
      [] s = "invalid_array_arg" -> Variant("InvalidArrayArg")
      [] s = "invalid_charset" -> Variant("InvalidCharset")
      [] s = "invalid_form_data" -> Variant("InvalidFormData")
      [] s = "invalid_post_type" -> Variant("InvalidPostType")
      [] s = "missing_post_type" -> Variant("MissingPostType")
      [] s = "team_added_to_org" -> Variant("TeamAddedToOrg")
      [] s = "request_timeout" -> Variant("RequestTimeout")
      [] OTHER -> Unknown(s)

(* impl Into<Result<LeaveResponse, LeaveError<E>>> for LeaveResponse *)
LeaveResponseInto(self) ==
    IF self.ok THEN Ok(self) ELSE Err(LeaveErrorFrom(unwrap_or(self.error, "")))

(* leave: the parameter list handed to the sender *)
leave_params(tok, req) ==
    filter_map(<<Some(<<"token", tok>>),
                 Some(<<"channel", req.channel>>)>>)

leave_url == get_slack_url_for_method("channels.leave")

(* struct LeaveRequest: the values drawn for it *)
LeaveRequest ==
    [channel : StrValues("channel")]

(***************************************************************************)
(* channels.list                                                         *)
(***************************************************************************)
(* The domain variants of enum ListError (every variant but MalformedResponse, Unknown, Client) *)
ListError ==
    {"NotAuthed", "InvalidAuth", "AccountInactive", "InvalidArgName",
     "InvalidArrayArg", "InvalidCharset", "InvalidFormData", "InvalidPostType",
     "MissingPostType", "TeamAddedToOrg", "RequestTimeout"}

\* The descriptions with the text of Unknown starting with a label
ListErrorDescriptionLabelled(e) ==
    CASE e.tag = "NotAuthed" ->
           "not_authed: No authentication token provided."
      [] e.tag = "InvalidAuth" ->
           "invalid_auth: Invalid authentication token."
      [] e.tag = "AccountInactive" ->
           "account_inactive: Authentication token is for a deleted user or team."
      [] e.tag = "InvalidArgName" ->
           "invalid_arg_name: The method was passed an argument whose name falls outside the bounds of common decency. This includes very long names and names with non-alphanumeric characters other than _. If you get this error, it is typically an indication that you have made a very malformed API call."
      [] e.tag = "InvalidArrayArg" ->
           "invalid_array_arg: The method was passed a PHP-style array argument (e.g. with a name like foo[7]). These are never valid with the Slack API."
      [] e.tag = "InvalidCharset" ->
           "invalid_charset: The method was called via a POST request, but the charset specified in the Content-Type header was invalid. Valid charset names are: utf-8 iso-8859-1."
      [] e.tag = "InvalidFormData" ->
           "invalid_form_data: The method was called via a POST request with Content-Type application/x-www-form-urlencoded or multipart/form-data, but the form data was either missing or syntactically invalid."
      [] e.tag = "InvalidPostType" ->
           "invalid_post_type: The method was called via a POST request, but the specified Content-Type was invalid. Valid types are: application/x-www-form-urlencoded multipart/form-data text/plain."
      [] e.tag = "MissingPostType" ->
           "missing_post_type: The method was called via a POST request and included a data payload, but the request did not include a Content-Type header."
      [] e.tag = "TeamAddedToOrg" ->
           "team_added_to_org: The team associated with your request is currently undergoing migration to an Enterprise Organization. Web API and other platform operations will be intermittently unavailable until the transition is complete."
      [] e.tag = "RequestTimeout" ->
           "request_timeout: The method was called via a POST request, but the POST data was either missing or truncated."
      [] e.tag = "MalformedResponse" -> e.e
      [] e.tag = "Unknown" -> "unknown: " \o e.s
      [] e.tag = "Client" -> e.e

(* Error::description for ListError *)
ListErrorDescription(e) ==
    CASE e.tag = "NotAuthed" ->
           "not_authed: No authentication token provided."
      [] e.tag = "InvalidAuth" ->
           "invalid_auth: Invalid authentication token."
      [] e.tag = "AccountInactive" ->
           "account_inactive: Authentication token is for a deleted user or team."
      [] e.tag = "InvalidArgName" ->
           "invalid_arg_name: The method was passed an argument whose name falls outside the bounds of common decency. This includes very long names and names with non-alphanumeric characters other than _. If you get this error, it is typically an indication that you have made a very malformed API call."
      [] e.tag = "InvalidArrayArg" ->
           "invalid_array_arg: The method was passed a PHP-style array argument (e.g. with a name like foo[7]). These are never valid with the Slack API."
      [] e.tag = "InvalidCharset" ->
           "invalid_charset: The method was called via a POST request, but the charset specified in the Content-Type header was invalid. Valid charset names are: utf-8 iso-8859-1."
      [] e.tag = "InvalidFormData" ->
           "invalid_form_data: The method was called via a POST request with Content-Type application/x-www-form-urlencoded or multipart/form-data, but the form data was either missing or syntactically invalid."
      [] e.tag = "InvalidPostType" ->
           "invalid_post_type: The method was called via a POST request, but the specified Content-Type was invalid. Valid types are: application/x-www-form-urlencoded multipart/form-data text/plain."
      [] e.tag = "MissingPostType" ->
           "missing_post_type: The method was called via a POST request and included a data payload, but the request did not include a Content-Type header."
      [] e.tag = "TeamAddedToOrg" ->
           "team_added_to_org: The team associated with your request is currently undergoing migration to an Enterprise Organization. Web API and other platform operations will be intermittently unavailable until the transition is complete."
      [] e.tag = "RequestTimeout" ->
           "request_timeout: The method was called via a POST request, but the POST data was either missing or truncated."
      [] e.tag = "MalformedResponse" -> e.e
      [] e.tag = "Unknown" -> e.s
      [] e.tag = "Client" -> e.e

(* impl From<&str> for ListError *)
ListErrorFrom(s) ==
    CASE s = "not_authed" -> Variant("NotAuthed")
      [] s = "invalid_auth" -> Variant("InvalidAuth")
      [] s = "account_inactive" -> Variant("AccountInactive")
      [] s = "invalid_arg_name" -> Variant("InvalidArgName")
      [] s = "invalid_array_arg" -> Variant("InvalidArrayArg")
      [] s = "invalid_charset" -> Variant("InvalidCharset")
      [] s = "invalid_form_data" -> Variant("InvalidFormData")
      [] s = "invalid_post_type" -> Variant("InvalidPostType")
      [] s = "missing_post_type" -> Variant("MissingPostType")
      [] s = "team_added_to_org" -> Variant("TeamAddedToOrg")
      [] s = "request_timeout" -> Variant("RequestTimeout")
      [] OTHER -> Unknown(s)

(* impl Into<Result<ListResponse, ListError<E>>> for ListResponse *)
ListResponseInto(self) ==
    IF self.ok THEN Ok(self) ELSE Err(ListErrorFrom(unwrap_or(self.error, "")))

(* list: the parameter list handed to the sender *)
list_params(tok, req) ==
    filter_map(<<Some(<<"token", tok>>),
                 MapBool("exclude_archived", req.exclude_archived),
                 MapBool("exclude_members", req.exclude_members)>>)

list_url == get_slack_url_for_method("channels.list")

(* struct ListRequest: the values drawn for it *)
ListRequest ==
    [exclude_archived : OptBool,
     exclude_members : OptBool]

(***************************************************************************)
(* channels.mark                                                         *)
(***************************************************************************)
(* The domain variants of enum MarkError (every variant but MalformedResponse, Unknown, Client) *)
MarkError ==
    {"ChannelNotFound", "InvalidTimestamp", "NotInChannel", "NotAuthed",
     "InvalidAuth", "AccountInactive", "InvalidArgName", "InvalidArrayArg",
     "InvalidCharset", "InvalidFormData", "InvalidPostType", "MissingPostType",
     "TeamAddedToOrg", "RequestTimeout"}

(* Error::description for MarkError *)
MarkErrorDescription(e) ==
    CASE e.tag = "ChannelNotFound" ->
           "channel_not_found: Value passed for channel was invalid."
      [] e.tag = "InvalidTimestamp" ->
           "invalid_timestamp: Value passed for timestamp was invalid."
      [] e.tag = "NotInChannel" ->
           "not_in_channel: Caller is not a member of the channel."
      [] e.tag = "NotAuthed" ->
           "not_authed: No authentication token provided."
      [] e.tag = "InvalidAuth" ->
           "invalid_auth: Invalid authentication token."
      [] e.tag = "AccountInactive" ->
           "account_inactive: Authentication token is for a deleted user or team."
      [] e.tag = "InvalidArgName" ->
           "invalid_arg_name: The method was passed an argument whose name falls outside the bounds of common decency. This includes very long names and names with non-alphanumeric characters other than _. If you get this error, it is typically an indication that you have made a very malformed API call."
      [] e.tag = "InvalidArrayArg" ->
           "invalid_array_arg: The method was passed a PHP-style array argument (e.g. with a name like foo[7]). These are never valid with the Slack API."
      [] e.tag = "InvalidCharset" ->
           "invalid_charset: The method was called via a POST request, but the charset specified in the Content-Type header was invalid. Valid charset names are: utf-8 iso-8859-1."
      [] e.tag = "InvalidFormData" ->
           "invalid_form_data: The method was called via a POST request with Content-Type application/x-www-form-urlencoded or multipart/form-data, but the form data was either missing or syntactically invalid."
      [] e.tag = "InvalidPostType" ->
           "invalid_post_type: The method was called via a POST request, but the specified Content-Type was invalid. Valid types are: application/x-www-form-urlencoded multipart/form-data text/plain."
      [] e.tag = "MissingPostType" ->
           "missing_post_type: The method was called via a POST request and included a data payload, but the request did not include a Content-Type header."
      [] e.tag = "TeamAddedToOrg" ->
           "team_added_to_org: The team associated with your request is currently undergoing migration to an Enterprise Organization. Web API and other platform operations will be intermittently unavailable until the transition is complete."
      [] e.tag = "RequestTimeout" ->
           "request_timeout: The method was called via a POST request, but the POST data was either missing or truncated."
      [] e.tag = "MalformedResponse" -> e.e
      [] e.tag = "Unknown" -> e.s
      [] e.tag = "Client" -> e.e

(* impl From<&str> for MarkError *)
MarkErrorFrom(s) ==
    CASE s = "channel_not_found" -> Variant("ChannelNotFound")
      [] s = "invalid_timestamp" -> Variant("InvalidTimestamp")
      [] s = "not_in_channel" -> Variant("NotInChannel")
      [] s = "not_authed" -> Variant("NotAuthed")
      [] s = "invalid_auth" -> Variant("InvalidAuth")
      [] s = "account_inactive" -> Variant("AccountInactive")
      [] s = "invalid_arg_name" -> Variant("InvalidArgName")
      [] s = "invalid_array_arg" -> Variant("InvalidArrayArg")
      [] s = "invalid_charset" -> Variant("InvalidCharset")
      [] s = "invalid_form_data" -> Variant("InvalidFormData")
      [] s = "invalid_post_type" -> Variant("InvalidPostType")
      [] s = "missing_post_type" -> Variant("MissingPostType")
      [] s = "team_added_to_org" -> Variant("TeamAddedToOrg")
      [] s = "request_timeout" -> Variant("RequestTimeout")
      [] OTHER -> Unknown(s)

(* impl Into<Result<MarkResponse, MarkError<E>>> for MarkResponse *)
MarkResponseInto(self) ==
    IF self.ok THEN Ok(self) ELSE Err(MarkErrorFrom(unwrap_or(self.error, "")))

\* The parameter list with the token placed after the fields
mark_paramsTokenLast(tok, req) ==
    filter_map(<<Some(<<"channel", req.channel>>),
                 Some(<<"ts", req.ts>>),
                 Some(<<"token", tok>>)>>)

(* mark: the parameter list handed to the sender *)
mark_params(tok, req) ==
    filter_map(<<Some(<<"token", tok>>),
                 Some(<<"channel", req.channel>>),
                 Some(<<"ts", req.ts>>)>>)

mark_url == get_slack_url_for_method("channels.mark")

(* struct MarkRequest: the values drawn for it *)
MarkRequest ==
    [channel : StrValues("channel"),
     ts : StrValues("ts")]

(***************************************************************************)
(* channels.rename                                                       *)
(***************************************************************************)
(* The domain variants of enum RenameError (every variant but MalformedResponse, Unknown, Client) *)
RenameError ==
    {"ChannelNotFound", "NotInChannel", "NotAuthorized", "InvalidName",
     "NameTaken", "InvalidNameRequired", "InvalidNamePunctuation", "InvalidNameMaxlength",
     "InvalidNameSpecials", "NotAuthed", "InvalidAuth", "AccountInactive",
     "UserIsBot", "UserIsRestricted", "InvalidArgName", "InvalidArrayArg",
     "InvalidCharset", "InvalidFormData", "InvalidPostType", "MissingPostType",
     "TeamAddedToOrg", "RequestTimeout"}

(* Error::description for RenameError *)
RenameErrorDescription(e) ==
    CASE e.tag = "ChannelNotFound" ->
           "channel_not_found: Value passed for channel was invalid."
      [] e.tag = "NotInChannel" ->
           "not_in_channel: Caller is not a member of the channel."
      [] e.tag = "NotAuthorized" ->
           "not_authorized: Caller cannot rename this channel"
      [] e.tag = "InvalidName" ->
           "invalid_name: Value passed for name was invalid."
      [] e.tag = "NameTaken" ->
           "name_taken: New channel name is taken"
      [] e.tag = "InvalidNameRequired" ->
           "invalid_name_required: Value passed for name was empty."
      [] e.tag = "InvalidNamePunctuation" ->
           "invalid_name_punctuation: Value passed for name contained only punctuation."
      [] e.tag = "InvalidNameMaxlength" ->
           "invalid_name_maxlength: Value passed for name exceeded max length."
      [] e.tag = "InvalidNameSpecials" ->
           "invalid_name_specials: Value passed for name contained unallowed special characters or upper case characters."
      [] e.tag = "NotAuthed" ->
           "not_authed: No authentication token provided."
      [] e.tag = "InvalidAuth" ->
           "invalid_auth: Invalid authentication token."
      [] e.tag = "AccountInactive" ->
           "account_inactive: Authentication token is for a deleted user or team."
      [] e.tag = "UserIsBot" ->
           "user_is_bot: This method cannot be called by a bot user."
      [] e.tag = "UserIsRestricted" ->
           "user_is_restricted: This method cannot be called by a restricted user or single channel guest."
      [] e.tag = "InvalidArgName" ->
           "invalid_arg_name: The method was passed an argument whose name falls outside the bounds of common decency. This includes very long names and names with non-alphanumeric characters other than _. If you get this error, it is typically an indication that you have made a very malformed API call."
      [] e.tag = "InvalidArrayArg" ->
           "invalid_array_arg: The method was passed a PHP-style array argument (e.g. with a name like foo[7]). These are never valid with the Slack API."
      [] e.tag = "InvalidCharset" ->
           "invalid_charset: The method was called via a POST request, but the charset specified in the Content-Type header was invalid. Valid charset names are: utf-8 iso-8859-1."
      [] e.tag = "InvalidFormData" ->
           "invalid_form_data: The method was called via a POST request with Content-Type application/x-www-form-urlencoded or multipart/form-data, but the form data was either missing or syntactically invalid."
      [] e.tag = "InvalidPostType" ->
           "invalid_post_type: The method was called via a POST request, but the specified Content-Type was invalid. Valid types are: application/x-www-form-urlencoded multipart/form-data text/plain."
      [] e.tag = "MissingPostType" ->
           "missing_post_type: The method was called via a POST request and included a data payload, but the request did not include a Content-Type header."
      [] e.tag = "TeamAddedToOrg" ->
           "team_added_to_org: The team associated with your request is currently undergoing migration to an Enterprise Organization. Web API and other platform operations will be intermittently unavailable until the transition is complete."
      [] e.tag = "RequestTimeout" ->
           "request_timeout: The method was called via a POST request, but the POST data was either missing or truncated."
      [] e.tag = "MalformedResponse" -> e.e
      [] e.tag = "Unknown" -> e.s
      [] e.tag = "Client" -> e.e

\* The table with invalid_name_required resolved to the variant of invalid_name
RenameErrorFromTwoToOne(s) ==
    CASE s = "channel_not_found" -> Variant("ChannelNotFound")
      [] s = "not_in_channel" -> Variant("NotInChannel")
      [] s = "not_authorized" -> Variant("NotAuthorized")
      [] s = "invalid_name" -> Variant("InvalidName")
      [] s = "name_taken" -> Variant("NameTaken")
      [] s = "invalid_name_required" -> Variant("InvalidName")
      [] s = "invalid_name_punctuation" -> Variant("InvalidNamePunctuation")
      [] s = "invalid_name_maxlength" -> Variant("InvalidNameMaxlength")
      [] s = "invalid_name_specials" -> Variant("InvalidNameSpecials")
      [] s = "not_authed" -> Variant("NotAuthed")
      [] s = "invalid_auth" -> Variant("InvalidAuth")
      [] s = "account_inactive" -> Variant("AccountInactive")
      [] s = "user_is_bot" -> Variant("UserIsBot")
      [] s = "user_is_restricted" -> Variant("UserIsRestricted")
      [] s = "invalid_arg_name" -> Variant("InvalidArgName")
      [] s = "invalid_array_arg" -> Variant("InvalidArrayArg")
      [] s = "invalid_charset" -> Variant("InvalidCharset")
      [] s = "invalid_form_data" -> Variant("InvalidFormData")
      [] s = "invalid_post_type" -> Variant("InvalidPostType")
      [] s = "missing_post_type" -> Variant("MissingPostType")
      [] s = "team_added_to_org" -> Variant("TeamAddedToOrg")
      [] s = "request_timeout" -> Variant("RequestTimeout")
      [] OTHER -> Unknown(s)

(* impl From<&str> for RenameError *)
RenameErrorFrom(s) ==
    CASE s = "channel_not_found" -> Variant("ChannelNotFound")
      [] s = "not_in_channel" -> Variant("NotInChannel")
      [] s = "not_authorized" -> Variant("NotAuthorized")
      [] s = "invalid_name" -> Variant("InvalidName")
      [] s = "name_taken" -> Variant("NameTaken")
      [] s = "invalid_name_required" -> Variant("InvalidNameRequired")
      [] s = "invalid_name_punctuation" -> Variant("InvalidNamePunctuation")
      [] s = "invalid_name_maxlength" -> Variant("InvalidNameMaxlength")
      [] s = "invalid_name_specials" -> Variant("InvalidNameSpecials")
      [] s = "not_authed" -> Variant("NotAuthed")
      [] s = "invalid_auth" -> Variant("InvalidAuth")
      [] s = "account_inactive" -> Variant("AccountInactive")
      [] s = "user_is_bot" -> Variant("UserIsBot")
      [] s = "user_is_restricted" -> Variant("UserIsRestricted")
      [] s = "invalid_arg_name" -> Variant("InvalidArgName")
      [] s = "invalid_array_arg" -> Variant("InvalidArrayArg")
      [] s = "invalid_charset" -> Variant("InvalidCharset")
      [] s = "invalid_form_data" -> Variant("InvalidFormData")
      [] s = "invalid_post_type" -> Variant("InvalidPostType")
      [] s = "missing_post_type" -> Variant("MissingPostType")
      [] s = "team_added_to_org" -> Variant("TeamAddedToOrg")
      [] s = "request_timeout" -> Variant("RequestTimeout")
      [] OTHER -> Unknown(s)

(* impl Into<Result<RenameResponse, RenameError<E>>> for RenameResponse *)
RenameResponseInto(self) ==
    IF self.ok THEN Ok(self) ELSE Err(RenameErrorFrom(unwrap_or(self.error, "")))

\* The parameter list with name placed before channel
rename_paramsSwapped(tok, req) ==
    filter_map(<<Some(<<"token", tok>>),
                 Some(<<"name", req.name>>),
                 Some(<<"channel", req.channel>>),
                 MapBool("validate", req.validate)>>)

(* rename: the parameter list handed to the sender *)
rename_params(tok, req) ==
    filter_map(<<Some(<<"token", tok>>),
                 Some(<<"channel", req.channel>>),
                 Some(<<"name", req.name>>),
                 MapBool("validate", req.validate)>>)

rename_url == get_slack_url_for_method("channels.rename")

(* struct RenameRequest: the values drawn for it *)
RenameRequest ==
    [channel : StrValues("channel"),
     name : StrValues("name"),
     validate : OptBool]

(***************************************************************************)
(* channels.replies                                                      *)
(***************************************************************************)
(* The domain variants of enum RepliesError (every variant but MalformedResponse, Unknown, Client) *)
RepliesError ==
    {"ChannelNotFound", "ThreadNotFound", "NotAuthed", "InvalidAuth",
     "AccountInactive", "InvalidArgName", "InvalidArrayArg", "InvalidCharset",
     "InvalidFormData", "InvalidPostType", "MissingPostType", "TeamAddedToOrg",
     "RequestTimeout"}

(* Error::description for RepliesError *)
RepliesErrorDescription(e) ==
    CASE e.tag = "ChannelNotFound" ->
           "channel_not_found: Value for channel was missing or invalid."
      [] e.tag = "ThreadNotFound" ->
           "thread_not_found: Value for thread_ts was missing or invalid."
      [] e.tag = "NotAuthed" ->
           "not_authed: No authentication token provided."
      [] e.tag = "InvalidAuth" ->
           "invalid_auth: Invalid authentication token."
      [] e.tag = "AccountInactive" ->
           "account_inactive: Authentication token is for a deleted user or team."
      [] e.tag = "InvalidArgName" ->
           "invalid_arg_name: The method was passed an argument whose name falls outside the bounds of common decency. This includes very long names and names with non-alphanumeric characters other than _. If you get this error, it is typically an indication that you have made a very malformed API call."
      [] e.tag = "InvalidArrayArg" ->
           "invalid_array_arg: The method was passed a PHP-style array argument (e.g. with a name like foo[7]). These are never valid with the Slack API."
      [] e.tag = "InvalidCharset" ->
           "invalid_charset: The method was called via a POST request, but the charset specified in the Content-Type header was invalid. Valid charset names are: utf-8 iso-8859-1."
      [] e.tag = "InvalidFormData" ->
           "invalid_form_data: The method was called via a POST request with Content-Type application/x-www-form-urlencoded or multipart/form-data, but the form data was either missing or syntactically invalid."
      [] e.tag = "InvalidPostType" ->
           "invalid_post_type: The method was called via a POST request, but the specified Content-Type was invalid. Valid types are: application/x-www-form-urlencoded multipart/form-data text/plain."
      [] e.tag = "MissingPostType" ->
           "missing_post_type: The method was called via a POST request and included a data payload, but the request did not include a Content-Type header."
      [] e.tag = "TeamAddedToOrg" ->
           "team_added_to_org: The team associated with your request is currently undergoing migration to an Enterprise Organization. Web API and other platform operations will be intermittently unavailable until the transition is complete."
      [] e.tag = "RequestTimeout" ->
           "request_timeout: The method was called via a POST request, but the POST data was either missing or truncated."
      [] e.tag = "MalformedResponse" -> e.e
      [] e.tag = "Unknown" -> e.s
      [] e.tag = "Client" -> e.e

\* The table without the arm for team_added_to_org
RepliesErrorFromNoTeamAddedToOrg(s) ==
    CASE s = "channel_not_found" -> Variant("ChannelNotFound")
      [] s = "thread_not_found" -> Variant("ThreadNotFound")
      [] s = "not_authed" -> Variant("NotAuthed")
      [] s = "invalid_auth" -> Variant("InvalidAuth")
      [] s = "account_inactive" -> Variant("AccountInactive")
      [] s = "invalid_arg_name" -> Variant("InvalidArgName")
      [] s = "invalid_array_arg" -> Variant("InvalidArrayArg")
      [] s = "invalid_charset" -> Variant("InvalidCharset")
      [] s = "invalid_form_data" -> Variant("InvalidFormData")
      [] s = "invalid_post_type" -> Variant("InvalidPostType")
      [] s = "missing_post_type" -> Variant("MissingPostType")
      [] s = "request_timeout" -> Variant("RequestTimeout")
      [] OTHER -> Unknown(s)

(* impl From<&str> for RepliesError *)
RepliesErrorFrom(s) ==
    CASE s = "channel_not_found" -> Variant("ChannelNotFound")
      [] s = "thread_not_found" -> Variant("ThreadNotFound")
      [] s = "not_authed" -> Variant("NotAuthed")
      [] s = "invalid_auth" -> Variant("InvalidAuth")
      [] s = "account_inactive" -> Variant("AccountInactive")
      [] s = "invalid_arg_name" -> Variant("InvalidArgName")
      [] s = "invalid_array_arg" -> Variant("InvalidArrayArg")
      [] s = "invalid_charset" -> Variant("InvalidCharset")
      [] s = "invalid_form_data" -> Variant("InvalidFormData")
      [] s = "invalid_post_type" -> Variant("InvalidPostType")
      [] s = "missing_post_type" -> Variant("MissingPostType")
      [] s = "team_added_to_org" -> Variant("TeamAddedToOrg")
      [] s = "request_timeout" -> Variant("RequestTimeout")
      [] OTHER -> Unknown(s)

(* impl Into<Result<RepliesResponse, RepliesError<E>>> for RepliesResponse *)
RepliesResponseInto(self) ==
    IF self.ok THEN Ok(self) ELSE Err(RepliesErrorFrom(unwrap_or(self.error, "")))

(* replies: the parameter list handed to the sender *)
replies_params(tok, req) ==
    filter_map(<<Some(<<"token", tok>>),
                 Some(<<"channel", req.channel>>),
                 Some(<<"thread_ts", req.thread_ts>>)>>)

replies_url == get_slack_url_for_method("channels.replies")

(* struct RepliesRequest: the values drawn for it *)
RepliesRequest ==
    [channel : StrValues("channel"),
     thread_ts : StrValues("thread_ts")]

(***************************************************************************)
(* channels.setPurpose                                                   *)
(***************************************************************************)
(* The domain variants of enum SetPurposeError (every variant but MalformedResponse, Unknown, Client) *)
SetPurposeError ==
    {"ChannelNotFound", "NotInChannel", "IsArchived", "TooLong",
     "UserIsRestricted", "NotAuthed", "InvalidAuth", "AccountInactive",
     "InvalidArgName", "InvalidArrayArg", "InvalidCharset", "InvalidFormData",
     "InvalidPostType", "MissingPostType", "TeamAddedToOrg", "RequestTimeout"}

(* Error::description for SetPurposeError *)
SetPurposeErrorDescription(e) ==
    CASE e.tag = "ChannelNotFound" ->
           "channel_not_found: Value passed for channel was invalid."
      [] e.tag = "NotInChannel" ->
           "not_in_channel: Authenticated user is not in the channel."
      [] e.tag = "IsArchived" ->
           "is_archived: Channel has been archived."
      [] e.tag = "TooLong" ->
           "too_long: Purpose was longer than 250 characters."
      [] e.tag = "UserIsRestricted" ->
           "user_is_restricted: This method cannot be called by a restricted user or single channel guest."
      [] e.tag = "NotAuthed" ->
           "not_authed: No authentication token provided."
      [] e.tag = "InvalidAuth" ->
           "invalid_auth: Invalid authentication token."
      [] e.tag = "AccountInactive" ->
           "account_inactive: Authentication token is for a deleted user or team."
      [] e.tag = "InvalidArgName" ->
           "invalid_arg_name: The method was passed an argument whose name falls outside the bounds of common decency. This includes very long names and names with non-alphanumeric characters other than _. If you get this error, it is typically an indication that you have made a very malformed API call."
      [] e.tag = "InvalidArrayArg" ->
           "invalid_array_arg: The method was passed a PHP-style array argument (e.g. with a name like foo[7]). These are never valid with the Slack API."
      [] e.tag = "InvalidCharset" ->
           "invalid_charset: The method was called via a POST request, but the charset specified in the Content-Type header was invalid. Valid charset names are: utf-8 iso-8859-1."
      [] e.tag = "InvalidFormData" ->
           "invalid_form_data: The method was called via a POST request with Content-Type application/x-www-form-urlencoded or multipart/form-data, but the form data was either missing or syntactically invalid."
      [] e.tag = "InvalidPostType" ->
           "invalid_post_type: The method was called via a POST request, but the specified Content-Type was invalid. Valid types are: application/x-www-form-urlencoded multipart/form-data text/plain."
      [] e.tag = "MissingPostType" ->
           "missing_post_type: The method was called via a POST request and included a data payload, but the request did not include a Content-Type header."
      [] e.tag = "TeamAddedToOrg" ->
           "team_added_to_org: The team associated with your request is currently undergoing migration to an Enterprise Organization. Web API and other platform operations will be intermittently unavailable until the transition is complete."
      [] e.tag = "RequestTimeout" ->
           "request_timeout: The method was called via a POST request, but the POST data was either missing or truncated."
      [] e.tag = "MalformedResponse" -> e.e
      [] e.tag = "Unknown" -> e.s
      [] e.tag = "Client" -> e.e

(* impl From<&str> for SetPurposeError *)
SetPurposeErrorFrom(s) ==
    CASE s = "channel_not_found" -> Variant("ChannelNotFound")
      [] s = "not_in_channel" -> Variant("NotInChannel")
      [] s = "is_archived" -> Variant("IsArchived")
      [] s = "too_long" -> Variant("TooLong")
      [] s = "user_is_restricted" -> Variant("UserIsRestricted")
      [] s = "not_authed" -> Variant("NotAuthed")
      [] s = "invalid_auth" -> Variant("InvalidAuth")
      [] s = "account_inactive" -> Variant("AccountInactive")
      [] s = "invalid_arg_name" -> Variant("InvalidArgName")
      [] s = "invalid_array_arg" -> Variant("InvalidArrayArg")
      [] s = "invalid_charset" -> Variant("InvalidCharset")
      [] s = "invalid_form_data" -> Variant("InvalidFormData")
      [] s = "invalid_post_type" -> Variant("InvalidPostType")
      [] s = "missing_post_type" -> Variant("MissingPostType")
      [] s = "team_added_to_org" -> Variant("TeamAddedToOrg")
      [] s = "request_timeout" -> Variant("RequestTimeout")
      [] OTHER -> Unknown(s)

(* impl Into<Result<SetPurposeResponse, SetPurposeError<E>>> for SetPurposeResponse *)
SetPurposeResponseInto(self) ==
    IF self.ok THEN Ok(self) ELSE Err(SetPurposeErrorFrom(unwrap_or(self.error, "")))

(* set_purpose: the parameter list handed to the sender *)
set_purpose_params(tok, req) ==
    filter_map(<<Some(<<"token", tok>>),
                 Some(<<"channel", req.channel>>),
                 Some(<<"purpose", req.purpose>>)>>)

set_purpose_url == get_slack_url_for_method("channels.setPurpose")

(* struct SetPurposeRequest: the values drawn for it *)
SetPurposeRequest ==
    [channel : StrValues("channel"),
     purpose : StrValues("purpose")]

(***************************************************************************)
(* channels.setTopic                                                     *)
(***************************************************************************)
(* The domain variants of enum SetTopicError (every variant but MalformedResponse, Unknown, Client) *)
SetTopicError ==
    {"ChannelNotFound", "NotInChannel", "IsArchived", "TooLong",
     "UserIsRestricted", "NotAuthed", "InvalidAuth", "AccountInactive",
     "InvalidArgName", "InvalidArrayArg", "InvalidCharset", "InvalidFormData",
     "InvalidPostType", "MissingPostType", "TeamAddedToOrg", "RequestTimeout"}

(* Error::description for SetTopicError *)
SetTopicErrorDescription(e) ==
    CASE e.tag = "ChannelNotFound" ->
           "channel_not_found: Value passed for channel was invalid."
      [] e.tag = "NotInChannel" ->
           "not_in_channel: Authenticated user is not in the channel."
      [] e.tag = "IsArchived" ->
           "is_archived: Channel has been archived."
      [] e.tag = "TooLong" ->
           "too_long: Topic was longer than 250 characters."
      [] e.tag = "UserIsRestricted" ->
           "user_is_restricted: This method cannot be called by a restricted user or single channel guest."
      [] e.tag = "NotAuthed" ->
           "not_authed: No authentication token provided."
      [] e.tag = "InvalidAuth" ->
           "invalid_auth: Invalid authentication token."
      [] e.tag = "AccountInactive" ->
           "account_inactive: Authentication token is for a deleted user or team."
      [] e.tag = "InvalidArgName" ->
           "invalid_arg_name: The method was passed an argument whose name falls outside the bounds of common decency. This includes very long names and names with non-alphanumeric characters other than _. If you get this error, it is typically an indication that you have made a very malformed API call."
      [] e.tag = "InvalidArrayArg" ->
           "invalid_array_arg: The method was passed a PHP-style array argument (e.g. with a name like foo[7]). These are never valid with the Slack API."
      [] e.tag = "InvalidCharset" ->
           "invalid_charset: The method was called via a POST request, but the charset specified in the Content-Type header was invalid. Valid charset names are: utf-8 iso-8859-1."
      [] e.tag = "InvalidFormData" ->
           "invalid_form_data: The method was called via a POST request with Content-Type application/x-www-form-urlencoded or multipart/form-data, but the form data was either missing or syntactically invalid."
      [] e.tag = "InvalidPostType" ->
           "invalid_post_type: The method was called via a POST request, but the specified Content-Type was invalid. Valid types are: application/x-www-form-urlencoded multipart/form-data text/plain."
      [] e.tag = "MissingPostType" ->
           "missing_post_type: The method was called via a POST request and included a data payload, but the request did not include a Content-Type header."
      [] e.tag = "TeamAddedToOrg" ->
           "team_added_to_org: The team associated with your request is currently undergoing migration to an Enterprise Organization. Web API and other platform operations will be intermittently unavailable until the transition is complete."
      [] e.tag = "RequestTimeout" ->
           "request_timeout: The method was called via a POST request, but the POST data was either missing or truncated."
      [] e.tag = "MalformedResponse" -> e.e
      [] e.tag = "Unknown" -> e.s
      [] e.tag = "Client" -> e.e

(* impl From<&str> for SetTopicError *)
SetTopicErrorFrom(s) ==
    CASE s = "channel_not_found" -> Variant("ChannelNotFound")
      [] s = "not_in_channel" -> Variant("NotInChannel")
      [] s = "is_archived" -> Variant("IsArchived")
      [] s = "too_long" -> Variant("TooLong")
      [] s = "user_is_restricted" -> Variant("UserIsRestricted")
      [] s = "not_authed" -> Variant("NotAuthed")
      [] s = "invalid_auth" -> Variant("InvalidAuth")
      [] s = "account_inactive" -> Variant("AccountInactive")
      [] s = "invalid_arg_name" -> Variant("InvalidArgName")
      [] s = "invalid_array_arg" -> Variant("InvalidArrayArg")
      [] s = "invalid_charset" -> Variant("InvalidCharset")
      [] s = "invalid_form_data" -> Variant("InvalidFormData")
      [] s = "invalid_post_type" -> Variant("InvalidPostType")
      [] s = "missing_post_type" -> Variant("MissingPostType")
      [] s = "team_added_to_org" -> Variant("TeamAddedToOrg")
      [] s = "request_timeout" -> Variant("RequestTimeout")
      [] OTHER -> Unknown(s)

(* impl Into<Result<SetTopicResponse, SetTopicError<E>>> for SetTopicResponse *)
SetTopicResponseInto(self) ==
    IF self.ok THEN Ok(self) ELSE Err(SetTopicErrorFrom(unwrap_or(self.error, "")))

(* set_topic: the parameter list handed to the sender *)
set_topic_params(tok, req) ==
    filter_map(<<Some(<<"token", tok>>),
                 Some(<<"channel", req.channel>>),
                 Some(<<"topic", req.topic>>)>>)

\* The url resolved from the method name of set_purpose
set_topic_urlOfSetPurpose == get_slack_url_for_method("channels.setPurpose")

set_topic_url == get_slack_url_for_method("channels.setTopic")

(* struct SetTopicRequest: the values drawn for it *)
SetTopicRequest ==
    [channel : StrValues("channel"),
     topic : StrValues("topic")]

(***************************************************************************)
(* channels.unarchive                                                    *)
(***************************************************************************)
(* The domain variants of enum UnarchiveError (every variant but MalformedResponse, Unknown, Client) *)
UnarchiveError ==
    {"ChannelNotFound", "NotArchived", "NotAuthed", "InvalidAuth",
     "AccountInactive", "UserIsBot", "UserIsRestricted", "InvalidArgName",
     "InvalidArrayArg", "InvalidCharset", "InvalidFormData", "InvalidPostType",
     "MissingPostType", "TeamAddedToOrg", "RequestTimeout"}

(* Error::description for UnarchiveError *)
UnarchiveErrorDescription(e) ==
    CASE e.tag = "ChannelNotFound" ->
           "channel_not_found: Value passed for channel was invalid."
      [] e.tag = "NotArchived" ->
           "not_archived: Channel is not archived."
      [] e.tag = "NotAuthed" ->
           "not_authed: No authentication token provided."
      [] e.tag = "InvalidAuth" ->
           "invalid_auth: Invalid authentication token."
      [] e.tag = "AccountInactive" ->
           "account_inactive: Authentication token is for a deleted user or team."
      [] e.tag = "UserIsBot" ->
           "user_is_bot: This method cannot be called by a bot user."
      [] e.tag = "UserIsRestricted" ->
           "user_is_restricted: This method cannot be called by a restricted user or single channel guest."
      [] e.tag = "InvalidArgName" ->
           "invalid_arg_name: The method was passed an argument whose name falls outside the bounds of common decency. This includes very long names and names with non-alphanumeric characters other than _. If you get this error, it is typically an indication that you have made a very malformed API call."
      [] e.tag = "InvalidArrayArg" ->
           "invalid_array_arg: The method was passed a PHP-style array argument (e.g. with a name like foo[7]). These are never valid with the Slack API."
      [] e.tag = "InvalidCharset" ->
           "invalid_charset: The method was called via a POST request, but the charset specified in the Content-Type header was invalid. Valid charset names are: utf-8 iso-8859-1."
      [] e.tag = "InvalidFormData" ->
           "invalid_form_data: The method was called via a POST request with Content-Type application/x-www-form-urlencoded or multipart/form-data, but the form data was either missing or syntactically invalid."
      [] e.tag = "InvalidPostType" ->
           "invalid_post_type: The method was called via a POST request, but the specified Content-Type was invalid. Valid types are: application/x-www-form-urlencoded multipart/form-data text/plain."
      [] e.tag = "MissingPostType" ->
           "missing_post_type: The method was called via a POST request and included a data payload, but the request did not include a Content-Type header."
      [] e.tag = "TeamAddedToOrg" ->
           "team_added_to_org: The team associated with your request is currently undergoing migration to an Enterprise Organization. Web API and other platform operations will be intermittently unavailable until the transition is complete."
      [] e.tag = "RequestTimeout" ->
           "request_timeout: The method was called via a POST request, but the POST data was either missing or truncated."
      [] e.tag = "MalformedResponse" -> e.e
      [] e.tag = "Unknown" -> e.s
      [] e.tag = "Client" -> e.e

\* The table with a fallback arm that drops the string it was given
UnarchiveErrorFromBlank(s) ==
    CASE s = "channel_not_found" -> Variant("ChannelNotFound")
      [] s = "not_archived" -> Variant("NotArchived")
      [] s = "not_authed" -> Variant("NotAuthed")
      [] s = "invalid_auth" -> Variant("InvalidAuth")
      [] s = "account_inactive" -> Variant("AccountInactive")
      [] s = "user_is_bot" -> Variant("UserIsBot")
      [] s = "user_is_restricted" -> Variant("UserIsRestricted")
      [] s = "invalid_arg_name" -> Variant("InvalidArgName")
      [] s = "invalid_array_arg" -> Variant("InvalidArrayArg")
      [] s = "invalid_charset" -> Variant("InvalidCharset")
      [] s = "invalid_form_data" -> Variant("InvalidFormData")
      [] s = "invalid_post_type" -> Variant("InvalidPostType")
      [] s = "missing_post_type" -> Variant("MissingPostType")
      [] s = "team_added_to_org" -> Variant("TeamAddedToOrg")
      [] s = "request_timeout" -> Variant("RequestTimeout")
      [] OTHER -> Unknown("")

\* The table with an arm of the table of ArchiveError added
UnarchiveErrorFromWithArchiveArm(s) ==
    CASE s = "channel_not_found" -> Variant("ChannelNotFound")
      [] s = "not_archived" -> Variant("NotArchived")
      [] s = "already_archived" -> Variant("AlreadyArchived")
      [] s = "not_authed" -> Variant("NotAuthed")
      [] s = "invalid_auth" -> Variant("InvalidAuth")
      [] s = "account_inactive" -> Variant("AccountInactive")
      [] s = "user_is_bot" -> Variant("UserIsBot")
      [] s = "user_is_restricted" -> Variant("UserIsRestricted")
      [] s = "invalid_arg_name" -> Variant("InvalidArgName")
      [] s = "invalid_array_arg" -> Variant("InvalidArrayArg")
      [] s = "invalid_charset" -> Variant("InvalidCharset")
      [] s = "invalid_form_data" -> Variant("InvalidFormData")
      [] s = "invalid_post_type" -> Variant("InvalidPostType")
      [] s = "missing_post_type" -> Variant("MissingPostType")
      [] s = "team_added_to_org" -> Variant("TeamAddedToOrg")
      [] s = "request_timeout" -> Variant("RequestTimeout")
      [] OTHER -> Unknown(s)

(* impl From<&str> for UnarchiveError *)
UnarchiveErrorFrom(s) ==
    CASE s = "channel_not_found" -> Variant("ChannelNotFound")
      [] s = "not_archived" -> Variant("NotArchived")
      [] s = "not_authed" -> Variant("NotAuthed")
      [] s = "invalid_auth" -> Variant("InvalidAuth")
      [] s = "account_inactive" -> Variant("AccountInactive")
      [] s = "user_is_bot" -> Variant("UserIsBot")
      [] s = "user_is_restricted" -> Variant("UserIsRestricted")
      [] s = "invalid_arg_name" -> Variant("InvalidArgName")
      [] s = "invalid_array_arg" -> Variant("InvalidArrayArg")
      [] s = "invalid_charset" -> Variant("InvalidCharset")
      [] s = "invalid_form_data" -> Variant("InvalidFormData")
      [] s = "invalid_post_type" -> Variant("InvalidPostType")
      [] s = "missing_post_type" -> Variant("MissingPostType")
      [] s = "team_added_to_org" -> Variant("TeamAddedToOrg")
      [] s = "request_timeout" -> Variant("RequestTimeout")
      [] OTHER -> Unknown(s)

(* impl Into<Result<UnarchiveResponse, UnarchiveError<E>>> for UnarchiveResponse *)
UnarchiveResponseInto(self) ==
    IF self.ok THEN Ok(self) ELSE Err(UnarchiveErrorFrom(unwrap_or(self.error, "")))

(* unarchive: the parameter list handed to the sender *)
unarchive_params(tok, req) ==
    filter_map(<<Some(<<"token", tok>>),
                 Some(<<"channel", req.channel>>)>>)

unarchive_url == get_slack_url_for_method("channels.unarchive")

(* struct UnarchiveRequest: the values drawn for it *)
UnarchiveRequest ==
    [channel : StrValues("channel")]

(***************************************************************************)
(* The endpoint functions, selected by name.                               *)
(***************************************************************************)
Endpoints ==
    {"archive", "create", "history", "info", "invite", "join", "kick", "leave",
     "list", "mark", "rename", "replies", "set_purpose", "set_topic", "unarchive"}

Params(e, tok, req) ==
    CASE e = "archive" -> archive_params(tok, req)
      [] e = "create" -> create_params(tok, req)
      [] e = "history" -> history_params(tok, req)
      [] e = "info" -> info_params(tok, req)
      [] e = "invite" -> invite_params(tok, req)
      [] e = "join" -> join_params(tok, req)
      [] e = "kick" -> kick_params(tok, req)
      [] e = "leave" -> leave_params(tok, req)
      [] e = "list" -> list_params(tok, req)
      [] e = "mark" -> mark_params(tok, req)
      [] e = "rename" -> rename_params(tok, req)
      [] e = "replies" -> replies_params(tok, req)
      [] e = "set_purpose" -> set_purpose_params(tok, req)
      [] e = "set_topic" -> set_topic_params(tok, req)
      [] e = "unarchive" -> unarchive_params(tok, req)

Url(e) ==
    CASE e = "archive" -> archive_url
      [] e = "create" -> create_url
      [] e = "history" -> history_url
      [] e = "info" -> info_url
      [] e = "invite" -> invite_url
      [] e = "join" -> join_url
      [] e = "kick" -> kick_url
      [] e = "leave" -> leave_url
      [] e = "list" -> list_url
      [] e = "mark" -> mark_url
      [] e = "rename" -> rename_url
      [] e = "replies" -> replies_url
      [] e = "set_purpose" -> set_purpose_url
      [] e = "set_topic" -> set_topic_url
      [] e = "unarchive" -> unarchive_url

ErrorFrom(e, s) ==
    CASE e = "archive" -> ArchiveErrorFrom(s)
      [] e = "create" -> CreateErrorFrom(s)
      [] e = "history" -> HistoryErrorFrom(s)
      [] e = "info" -> InfoErrorFrom(s)
      [] e = "invite" -> InviteErrorFrom(s)
      [] e = "join" -> JoinErrorFrom(s)
      [] e = "kick" -> KickErrorFrom(s)
      [] e = "leave" -> LeaveErrorFrom(s)
      [] e = "list" -> ListErrorFrom(s)
      [] e = "mark" -> MarkErrorFrom(s)
      [] e = "rename" -> RenameErrorFrom(s)
      [] e = "replies" -> RepliesErrorFrom(s)
      [] e = "set_purpose" -> SetPurposeErrorFrom(s)
      [] e = "set_topic" -> SetTopicErrorFrom(s)
      [] e = "unarchive" -> UnarchiveErrorFrom(s)

Into(e, resp) ==
    CASE e = "archive" -> ArchiveResponseInto(resp)
      [] e = "create" -> CreateResponseInto(resp)
      [] e = "history" -> HistoryResponseInto(resp)
      [] e = "info" -> InfoResponseInto(resp)
      [] e = "invite" -> InviteResponseInto(resp)
      [] e = "join" -> JoinResponseInto(resp)
      [] e = "kick" -> KickResponseInto(resp)
      [] e = "leave" -> LeaveResponseInto(resp)
      [] e = "list" -> ListResponseInto(resp)
      [] e = "mark" -> MarkResponseInto(resp)
      [] e = "rename" -> RenameResponseInto(resp)
      [] e = "replies" -> RepliesResponseInto(resp)
      [] e = "set_purpose" -> SetPurposeResponseInto(resp)
      [] e = "set_topic" -> SetTopicResponseInto(resp)
      [] e = "unarchive" -> UnarchiveResponseInto(resp)

DomainVariants(e) ==
    CASE e = "archive" -> ArchiveError
      [] e = "create" -> CreateError
      [] e = "history" -> HistoryError
      [] e = "info" -> InfoError
      [] e = "invite" -> InviteError
      [] e = "join" -> JoinError
      [] e = "kick" -> KickError
      [] e = "leave" -> LeaveError
      [] e = "list" -> ListError
      [] e = "mark" -> MarkError
      [] e = "rename" -> RenameError
      [] e = "replies" -> RepliesError
      [] e = "set_purpose" -> SetPurposeError
      [] e = "set_topic" -> SetTopicError
      [] e = "unarchive" -> UnarchiveError

Description(e, err) ==
    CASE e = "archive" -> ArchiveErrorDescription(err)
      [] e = "create" -> CreateErrorDescription(err)
      [] e = "history" -> HistoryErrorDescription(err)
      [] e = "info" -> InfoErrorDescription(err)
      [] e = "invite" -> InviteErrorDescription(err)
      [] e = "join" -> JoinErrorDescription(err)
      [] e = "kick" -> KickErrorDescription(err)
      [] e = "leave" -> LeaveErrorDescription(err)
      [] e = "list" -> ListErrorDescription(err)
      [] e = "mark" -> MarkErrorDescription(err)
      [] e = "rename" -> RenameErrorDescription(err)
      [] e = "replies" -> RepliesErrorDescription(err)
      [] e = "set_purpose" -> SetPurposeErrorDescription(err)
      [] e = "set_topic" -> SetTopicErrorDescription(err)
      [] e = "unarchive" -> UnarchiveErrorDescription(err)

OptionalFields(e) ==
    CASE e \in {"create", "join", "rename"} -> {"validate"}
      [] e = "history" -> {"latest", "oldest", "inclusive", "count", "unreads"}
      [] e = "list" -> {"exclude_archived", "exclude_members"}
      [] OTHER -> {}

\* The fields of XxxRequest in the order the struct declares them
FieldOrder(e) ==
    CASE e \in {"archive", "info", "leave", "unarchive"} -> <<"channel">>
      [] e \in {"create", "join"} -> <<"name", "validate">>
      [] e = "history" -> <<"channel", "latest", "oldest", "inclusive", "count", "unreads">>
      [] e \in {"invite", "kick"} -> <<"channel", "user">>
      [] e = "list" -> <<"exclude_archived", "exclude_members">>
      [] e = "mark" -> <<"channel", "ts">>
      [] e = "rename" -> <<"channel", "name", "validate">>
      [] e = "replies" -> <<"channel", "thread_ts">>
      [] e = "set_purpose" -> <<"channel", "purpose">>
      [] e = "set_topic" -> <<"channel", "topic">>

\* The fields of XxxRequest of type &str, in declared order
RequiredFields(e) == SelectSeq(FieldOrder(e), LAMBDA f : f \notin OptionalFields(e))

\* The fields of XxxRequest of type Option<bool>
BoolFields(e) ==
    CASE e \in {"create", "join", "rename"} -> {"validate"}
      [] e = "history" -> {"inclusive", "unreads"}
      [] e = "list" -> {"exclude_archived", "exclude_members"}
      [] OTHER -> {}

RequestsOf(e) ==
    CASE e = "archive" -> ArchiveRequest
      [] e = "create" -> CreateRequest
      [] e = "history" -> HistoryRequest
      [] e = "info" -> InfoRequest
      [] e = "invite" -> InviteRequest
      [] e = "join" -> JoinRequest
      [] e = "kick" -> KickRequest
      [] e = "leave" -> LeaveRequest
      [] e = "list" -> ListRequest
      [] e = "mark" -> MarkRequest
      [] e = "rename" -> RenameRequest
      [] e = "replies" -> RepliesRequest
      [] e = "set_purpose" -> SetPurposeRequest
      [] e = "set_topic" -> SetTopicRequest
      [] e = "unarchive" -> UnarchiveRequest

\* At most MaxOptional optional fields are set in a request that is drawn
MaxOptional == 2

Requests(e) ==
    {r \in RequestsOf(e) :
        Cardinality({f \in OptionalFields(e) : r[f].some}) <= MaxOptional}

(***************************************************************************)
(* What the sender returns: a failure of its own, or a body.  A body is    *)
(* text that is not JSON, a JSON value that is not an object, or a JSON    *)
(* object whose ok and error members are absent or hold a JSON value, and  *)
(* whose further members are absent, null, a value that fits the field of  *)
(* the Response or a value that does not.                                  *)
(***************************************************************************)
JAbsent == [t |-> "absent"]

JNull == [t |-> "null"]

JBool(b) == [t |-> "bool", b |-> b]

JStr(s) == [t |-> "string", s |-> s]

JNum(n) == [t |-> "number", n |-> n]

Text(s) == [json |-> "invalid", text |-> s]

Scalar(v) == [json |-> "scalar", v |-> v]

\* A JSON object or array; fits tells whether its contents decode as the
\* type of the Response field (::Channel, Vec<::Message>, ::ThreadInfo, ...)
JObj(fits) == [t |-> "object", fits |-> fits]

JArr(fits) == [t |-> "array", fits |-> fits]

\* The pub fields of struct XxxResponse, next to error and ok
ExtraFields(e) ==
    CASE e \in {"create", "info", "invite", "join", "rename"} -> {"channel"}
      [] e = "history" -> {"has_more", "latest", "messages"}
      [] e = "list" -> {"channels"}
      [] e = "replies" -> {"messages", "thread_info"}
      [] e = "set_purpose" -> {"purpose"}
      [] e = "set_topic" -> {"topic"}
      [] OTHER -> {}

ExtraNames == UNION {ExtraFields(e) : e \in Endpoints}

\* The JSON type each of these fields is decoded from
FieldType(f) ==
    CASE f \in {"channel", "thread_info"} -> "object"
      [] f \in {"channels", "messages"} -> "array"
      [] f = "has_more" -> "bool"
      [] f \in {"latest", "purpose", "topic"} -> "string"

\* The members a body holds for these fields: none of them, all null, all
\* with a value that decodes, only the messages next to a channel that does
\* not decode, or all with a number
Members(which) ==
    [f \in ExtraNames |->
        CASE which = "none" -> JAbsent
          [] which = "null" -> JNull
          [] which = "full" /\ FieldType(f) = "object" -> JObj(TRUE)
          [] which = "full" /\ FieldType(f) = "array" -> JArr(TRUE)
          [] which = "full" /\ FieldType(f) = "bool" -> JBool(TRUE)
          [] which = "full" /\ FieldType(f) = "string" -> JStr("text")
          [] which = "some" /\ f = "messages" -> JArr(TRUE)
          [] which = "some" /\ f = "channel" -> JObj(FALSE)
          [] which = "some" -> JAbsent
          [] which = "wrong" -> JNum(7)]

ObjectWith(okf, errorf, m) == [json |-> "object", ok |-> okf, error |-> errorf, members |-> m]

Object(okf, errorf) == ObjectWith(okf, errorf, Members("none"))

\* Deserialize for an Option<T> field: a missing or null member is None
MemberFits(f, v) ==
    \/ v.t \in {"absent", "null"}
    \/ v.t = FieldType(f) /\ (v.t \in {"object", "array"} => v.fits)

DecodeMember(v) ==
    CASE v.t \in {"absent", "null"} -> None
      [] v.t = "string" -> Some(v.s)
      [] v.t = "bool" -> Some(v.b)
      [] OTHER -> Some(v)

\* A value of struct XxxResponse
Response(e, okv, errorv, extra) ==
    [f \in {"ok", "error"} \cup ExtraFields(e) |->
        CASE f = "ok" -> okv
          [] f = "error" -> errorv
          [] OTHER -> extra[f]]

\* The codes an endpoint documents, one per domain variant, read off its descriptions
CodesOf ==
    [e \in Endpoints |-> {CodeOf(Description(e, Variant(v))) : v \in DomainVariants(e)}]

KnownCodes == UNION {CodesOf[e] : e \in Endpoints}

\* Codes no endpoint knows: empty, new, or near misses of known ones
OddCodes ==
    {"", "some_future_code_xyz", "Channel_Not_Found", "CHANNEL_NOT_FOUND",
     " channel_not_found", "channel_not_found ", "channel_not_foun",
     "invalid_name_", "invalid", "not_authed: No authentication token provided."}

ErrorStrings == KnownCodes \cup OddCodes

TransportErrors == {"timed out", "connection refused"}

Bodies ==
    {Text("<html>error</html>"), Text(""), Scalar(JNum(42)), Scalar(JNull)}
    \cup {Object(JBool(FALSE), ef) : ef \in {JAbsent, JNull} \cup {JStr(s) : s \in ErrorStrings}}
    \cup {Object(okf, ef) :
            okf \in {JBool(TRUE), JAbsent},
            ef \in {JAbsent, JNull, JStr(""), JStr("channel_not_found"),
                    JStr("not_authed"), JStr("some_future_code_xyz")}}
    \cup {Object(okf, JAbsent) : okf \in {JNull, JStr("true"), JNum(1)}}
    \cup {Object(okf, JNum(7)) : okf \in {JBool(TRUE), JBool(FALSE)}}
    \cup {ObjectWith(okf, JAbsent, m) :
            okf \in {JBool(TRUE), JBool(FALSE)},
            m \in {Members("null"), Members("full"), Members("some"), Members("wrong")}}

Replies == {Err(x) : x \in TransportErrors} \cup {Ok(b) : b \in Bodies}

\* Decoding with the pub fields declared T instead of Option<T>: a missing member is a decode failure
from_strFieldsRequired(e, body) ==
    IF body.json = "invalid"
    THEN Err(IF body.text = "" THEN "EOF while parsing a value" ELSE "expected value")
    ELSE IF body.json # "object" THEN Err("invalid type")
    ELSE IF body.ok.t \notin {"absent", "bool"} THEN Err("invalid type")
    ELSE IF body.error.t \notin {"absent", "null", "string"} THEN Err("invalid type")
    ELSE IF \E f \in ExtraFields(e) : ~MemberFits(f, body.members[f]) THEN Err("invalid type")
    ELSE IF \E f \in ExtraFields(e) : body.members[f].t = "absent" THEN Err("missing field")
    ELSE Ok(Response(e, IF body.ok.t = "bool" THEN body.ok.b ELSE FALSE,
                     IF body.error.t = "string" THEN Some(body.error.s) ELSE None,
                     [f \in ExtraNames |-> DecodeMember(body.members[f])]))

\* Decoding without #[serde(default)] on ok: a missing ok member is a decode failure
from_strOkRequired(e, body) ==
    IF body.json = "invalid"
    THEN Err(IF body.text = "" THEN "EOF while parsing a value" ELSE "expected value")
    ELSE IF body.json # "object" THEN Err("invalid type")
    ELSE IF body.ok.t = "absent" THEN Err("missing field ok")
    ELSE IF body.ok.t # "bool" THEN Err("invalid type")
    ELSE IF body.error.t \notin {"absent", "null", "string"} THEN Err("invalid type")
    ELSE IF \E f \in ExtraFields(e) : ~MemberFits(f, body.members[f]) THEN Err("invalid type")
    ELSE Ok(Response(e, body.ok.b,
                     IF body.error.t = "string" THEN Some(body.error.s) ELSE None,
                     [f \in ExtraNames |-> DecodeMember(body.members[f])]))

\* serde_json::from_str::<XxxResponse>: error: Option<String>, #[serde(default)] ok: bool
from_str(e, body) ==
    IF body.json = "invalid"
    THEN Err(IF body.text = "" THEN "EOF while parsing a value" ELSE "expected value")
    ELSE IF body.json # "object" THEN Err("invalid type")
    ELSE IF body.ok.t \notin {"absent", "bool"} THEN Err("invalid type")
    ELSE IF body.error.t \notin {"absent", "null", "string"} THEN Err("invalid type")
    ELSE IF \E f \in ExtraFields(e) : ~MemberFits(f, body.members[f]) THEN Err("invalid type")
    ELSE Ok(Response(e, IF body.ok.t = "bool" THEN body.ok.b ELSE FALSE,
                     IF body.error.t = "string" THEN Some(body.error.s) ELSE None,
                     [f \in ExtraNames |-> DecodeMember(body.members[f])]))

(***************************************************************************)
(* The call: client.send(..).map_err(Client).and_then(decode).and_then(into) *)
(***************************************************************************)
\* map_err that wraps a fixed value and drops the sender's error
MapErrClientLossy(r) == IF r.kind = "Err" THEN Err(Client("send failed")) ELSE r

\* .map_err(XxxError::Client)
MapErrClient(r) == IF r.kind = "Err" THEN Err(Client(r.err)) ELSE r

\* Decoding that falls back to a default Response when the body does not decode
AndThenDecodeOrDefault(e, r) ==
    IF r.kind = "Ok"
    THEN LET d == from_str(e, r.val)
         IN  IF d.kind = "Err" THEN Ok(Response(e, FALSE, None, [f \in ExtraNames |-> None])) ELSE d
    ELSE r

\* .and_then(|result| serde_json::from_str::<XxxResponse>(&result).map_err(XxxError::MalformedResponse))
AndThenDecode(e, r) ==
    IF r.kind = "Ok"
    THEN LET d == from_str(e, r.val)
         IN  IF d.kind = "Err" THEN Err(MalformedResponse(d.err)) ELSE d
    ELSE r

\* .and_then(|o| o.into())
AndThenInto(e, r) == IF r.kind = "Ok" THEN Into(e, r.val) ELSE r

\* The sender is invoked at most MaxSends times in a call that is explored
MaxSends == 2

Calls == {1}

NoValue == [kind |-> "None"]

Init ==
    /\ pc = [c \in Calls |-> "Unsent"]
    /\ ep \in [Calls -> Endpoints]
    /\ token \in [Calls -> Tokens]
    /\ request \in {r \in [Calls -> UNION {Requests(e) : e \in Endpoints}] :
                        \A c \in Calls : r[c] \in Requests(ep[c])}
    /\ sent = [c \in Calls |-> << >>]
    /\ reply = [c \in Calls |-> NoValue]
    /\ decoded = [c \in Calls |-> None]
    /\ result = [c \in Calls |-> NoValue]
    /\ resolved = << >>

\* Send that takes the optional values out of the Request it was given
SendTakesOptionals(c) ==
    /\ pc[c] = "Unsent"
    /\ Len(sent[c]) < MaxSends
    /\ sent' = [sent EXCEPT ![c] =
                  Append(@, [url |-> Url(ep[c]),
                             params |-> Params(ep[c], token[c], request[c])])]
    /\ request' = [request EXCEPT ![c] =
                     [f \in DOMAIN @ |-> IF f \in OptionalFields(ep[c]) THEN None ELSE @[f]]]
    /\ pc' = [pc EXCEPT ![c] = "Sent"]
    /\ UNCHANGED <<ep, token, reply, decoded, result, resolved>>

\* Send that takes the parameter list from a buffer shared by all calls
SendSharedParams(c) ==
    /\ pc[c] = "Unsent"
    /\ Len(sent[c]) < MaxSends
    /\ LET others == {d \in DOMAIN pc \ {c} : Len(sent[d]) > 0}
           ps == IF others = {} THEN Params(ep[c], token[c], request[c])
                 ELSE sent[CHOOSE d \in others : TRUE][1].params
       IN  sent' = [sent EXCEPT ![c] = Append(@, [url |-> Url(ep[c]), params |-> ps])]
    /\ pc' = [pc EXCEPT ![c] = "Sent"]
    /\ UNCHANGED <<ep, token, request, reply, decoded, result, resolved>>

\* Send that rejects an empty token itself instead of sending it
SendValidated(c) ==
    /\ pc[c] = "Unsent"
    /\ Len(sent[c]) < MaxSends
    /\ IF token[c] = ""
       THEN /\ result' = [result EXCEPT ![c] = Err(Variant("NotAuthed"))]
            /\ pc' = [pc EXCEPT ![c] = "Failed"]
            /\ UNCHANGED sent
       ELSE /\ sent' = [sent EXCEPT ![c] =
                          Append(@, [url |-> Url(ep[c]),
                                     params |-> Params(ep[c], token[c], request[c])])]
            /\ pc' = [pc EXCEPT ![c] = "Sent"]
            /\ UNCHANGED result
    /\ UNCHANGED <<ep, token, request, reply, decoded, resolved>>

\* Send that invokes client.send a second time with the same arguments
SendTwice(c) ==
    /\ pc[c] = "Unsent"
    /\ Len(sent[c]) < MaxSends
    /\ LET call == [url |-> Url(ep[c]), params |-> Params(ep[c], token[c], request[c])]
       IN  sent' = [sent EXCEPT ![c] = Append(Append(@, call), call)]
    /\ pc' = [pc EXCEPT ![c] = "Sent"]
    /\ UNCHANGED <<ep, token, request, reply, decoded, result, resolved>>

\* The parameters are built, the url resolved and client.send invoked
Send(c) ==
    /\ pc[c] = "Unsent"
    /\ Len(sent[c]) < MaxSends
    /\ sent' = [sent EXCEPT ![c] =
                  Append(@, [url |-> Url(ep[c]),
                             params |-> Params(ep[c], token[c], request[c])])]
    /\ pc' = [pc EXCEPT ![c] = "Sent"]
    /\ UNCHANGED <<ep, token, request, reply, decoded, result, resolved>>

\* Receive that starts the call over when the sender fails
ReceiveRetry(c) ==
    /\ pc[c] = "Sent"
    /\ \E r \in Replies :
          LET d == AndThenDecode(ep[c], MapErrClient(r))
          IN  /\ reply' = [reply EXCEPT ![c] = r]
              /\ IF r.kind = "Err"
                 THEN /\ pc' = [pc EXCEPT ![c] = "Unsent"]
                      /\ UNCHANGED <<decoded, result>>
                 ELSE IF d.kind = "Err"
                 THEN /\ result' = [result EXCEPT ![c] = d]
                      /\ pc' = [pc EXCEPT ![c] = "Failed"]
                      /\ UNCHANGED decoded
                 ELSE /\ decoded' = [decoded EXCEPT ![c] = Some(d.val)]
                      /\ pc' = [pc EXCEPT ![c] = "Decoded"]
                      /\ UNCHANGED result
    /\ UNCHANGED <<ep, token, request, sent, resolved>>

\* client.send returns r; a failure or an undecodable body ends the call
Receive(c) ==
    /\ pc[c] = "Sent"
    /\ \E r \in Replies :
          LET d == AndThenDecode(ep[c], MapErrClient(r))
          IN  /\ reply' = [reply EXCEPT ![c] = r]
              /\ IF d.kind = "Err"
                 THEN /\ result' = [result EXCEPT ![c] = d]
                      /\ pc' = [pc EXCEPT ![c] = "Failed"]
                      /\ UNCHANGED decoded
                 ELSE /\ decoded' = [decoded EXCEPT ![c] = Some(d.val)]
                      /\ pc' = [pc EXCEPT ![c] = "Decoded"]
                      /\ UNCHANGED result
    /\ UNCHANGED <<ep, token, request, sent, resolved>>

\* Convert that keeps waiting in Decoded when ok is false
ConvertWait(c) ==
    /\ pc[c] = "Decoded"
    /\ LET r == AndThenInto(ep[c], Ok(decoded[c].v))
       IN  IF r.kind = "Ok"
           THEN /\ result' = [result EXCEPT ![c] = r]
                /\ pc' = [pc EXCEPT ![c] = "Success"]
           ELSE UNCHANGED <<result, pc>>
    /\ UNCHANGED <<ep, token, request, sent, reply, decoded, resolved>>

\* The decoded Response is turned into the call's Result
Convert(c) ==
    /\ pc[c] = "Decoded"
    /\ LET r == AndThenInto(ep[c], Ok(decoded[c].v))
       IN  /\ result' = [result EXCEPT ![c] = r]
           /\ pc' = [pc EXCEPT ![c] = IF r.kind = "Ok" THEN "Success" ELSE "Failed"]
    /\ UNCHANGED <<ep, token, request, sent, reply, decoded, resolved>>

Next == \E c \in DOMAIN pc : Send(c) \/ Receive(c) \/ Convert(c)

Spec == Init /\ [][Next]_vars

\* The sender completes every send and the caller's thread keeps running
Fairness ==
    \A c \in Calls : WF_vars(Send(c)) /\ WF_vars(Receive(c)) /\ WF_vars(Convert(c))

SpecFair == Init /\ [][Next]_vars /\ Fairness

(***************************************************************************)
(* Two calls in flight at once against the same sender with the same       *)
(* token, their steps interleaved in every order.                          *)
(***************************************************************************)
ConcurrentCalls == {1, 2}

InitConc ==
    /\ pc = [c \in ConcurrentCalls |-> "Unsent"]
    /\ token = [c \in ConcurrentCalls |-> "xoxb-1"]
    /\ \E second \in {<<"archive", [channel |-> "C123"]>>,
                       <<"archive", [channel |-> ""]>>,
                       <<"invite", [channel |-> "C123", user |-> "U1"]>>,
                       <<"invite", [channel |-> "", user |-> ""]>>} :
          /\ ep = <<"archive", second[1]>>
          /\ request = <<[channel |-> "C123"], second[2]>>
    /\ sent = [c \in ConcurrentCalls |-> << >>]
    /\ reply = [c \in ConcurrentCalls |-> NoValue]
    /\ decoded = [c \in ConcurrentCalls |-> None]
    /\ result = [c \in ConcurrentCalls |-> NoValue]
    /\ resolved = << >>

SpecConc == InitConc /\ [][Next]_vars

(***************************************************************************)
(* The error-code resolution on its own: From<&str>::from applied to a     *)
(* code, then to further codes, the first one among them again.            *)
(***************************************************************************)
\* At most MaxResolved resolutions are made in a row
MaxResolved == 3

OtherInputs ==
    {<<"archive", "channel_not_found">>, <<"list", "channel_not_found">>, <<"join", "">>}

ResolveInputs ==
    IF resolved = << >> THEN Endpoints \X ErrorStrings
    ELSE {<<resolved[1].ep, resolved[1].s>>} \cup OtherInputs

InitResolve ==
    /\ pc = << >>
    /\ ep = << >>
    /\ token = << >>
    /\ request = << >>
    /\ sent = << >>
    /\ reply = << >>
    /\ decoded = << >>
    /\ result = << >>
    /\ resolved = << >>

\* XxxError::from(s) for the endpoint e
Resolve(e, s) ==
    /\ Len(resolved) < MaxResolved
    /\ resolved' = Append(resolved, [ep |-> e, s |-> s, v |-> ErrorFrom(e, s)])
    /\ UNCHANGED callVars

NextResolve == \E in \in ResolveInputs : Resolve(in[1], in[2])

SpecResolve == InitResolve /\ [][NextResolve]_vars

(***************************************************************************)
(* The text of an error: Display writes description(), and the text, whole *)
(* or up to its first ": ", is handed to from again.                       *)
(***************************************************************************)
Last == resolved[Len(resolved)]

\* from applied to a code, before anything else
ResolveFirst ==
    /\ resolved = << >>
    /\ \E e \in Endpoints, s \in ErrorStrings : Resolve(e, s)

\* description() of a domain variant the caller holds
DescribeVariant(e, v) ==
    /\ resolved = << >>
    /\ resolved' = << [ep |-> e, err |-> Variant(v), text |-> Description(e, Variant(v))] >>
    /\ UNCHANGED callVars

\* description() of the error the last from returned
Describe ==
    /\ resolved # << >>
    /\ Len(resolved) < MaxResolved
    /\ "v" \in DOMAIN Last
    /\ resolved' = Append(resolved, [ep |-> Last.ep, err |-> Last.v,
                                     text |-> Description(Last.ep, Last.v)])
    /\ UNCHANGED callVars

\* from applied to the text just written, or to its part before the first ": "
ResolveText ==
    /\ resolved # << >>
    /\ "text" \in DOMAIN Last
    /\ \E s \in {Last.text, CodeOf(Last.text)} : Resolve(Last.ep, s)

NextDescribe ==
    \/ ResolveFirst
    \/ \E e \in Endpoints : \E v \in DomainVariants(e) : DescribeVariant(e, v)
    \/ Describe
    \/ ResolveText

SpecDescribe == InitResolve /\ [][NextDescribe]_vars

(***************************************************************************)
(* The table of one endpoint written out: from applied once to every code  *)
(* that can arrive, one code after the other.                              *)
(***************************************************************************)
Tabulated == {resolved[i].s : i \in DOMAIN resolved}

\* XxxError::from for the endpoint e, applied to a code not yet tabulated
Tabulate(e) ==
    /\ IF resolved = << >> THEN TRUE ELSE resolved[1].ep = e
    /\ ErrorStrings \ Tabulated # {}
    /\ LET s == CHOOSE x \in ErrorStrings \ Tabulated : TRUE
       IN  resolved' = Append(resolved, [ep |-> e, s |-> s, v |-> ErrorFrom(e, s)])
    /\ UNCHANGED callVars

NextTable == \E e \in Endpoints : Tabulate(e)

SpecTable == InitResolve /\ [][NextTable]_vars

\* The codes every endpoint's table has: those of ListError, which has no others
PlatformCodes ==
    {"not_authed", "invalid_auth", "account_inactive", "invalid_arg_name",
     "invalid_array_arg", "invalid_charset", "invalid_form_data", "invalid_post_type",
     "missing_post_type", "team_added_to_org", "request_timeout"}

\* The page of the method an endpoint function wraps, from its doc comment
Wraps(e) ==
    CASE e = "archive" -> "https://api.slack.com/methods/channels.archive"
      [] e = "create" -> "https://api.slack.com/methods/channels.create"
      [] e = "history" -> "https://api.slack.com/methods/channels.history"
      [] e = "info" -> "https://api.slack.com/methods/channels.info"
      [] e = "invite" -> "https://api.slack.com/methods/channels.invite"
      [] e = "join" -> "https://api.slack.com/methods/channels.join"
      [] e = "kick" -> "https://api.slack.com/methods/channels.kick"
      [] e = "leave" -> "https://api.slack.com/methods/channels.leave"
      [] e = "list" -> "https://api.slack.com/methods/channels.list"
      [] e = "mark" -> "https://api.slack.com/methods/channels.mark"
      [] e = "rename" -> "https://api.slack.com/methods/channels.rename"
      [] e = "replies" -> "https://api.slack.com/methods/channels.replies"
      [] e = "set_purpose" -> "https://api.slack.com/methods/channels.setPurpose"
      [] e = "set_topic" -> "https://api.slack.com/methods/channels.setTopic"
      [] e = "unarchive" -> "https://api.slack.com/methods/channels.unarchive"

\* The method name: what follows "https://api.slack.com/methods/"
MethodOf(e) ==
    SubSeq(Wraps(e), Len("https://api.slack.com/methods/") + 1, Len(Wraps(e)))

(***************************************************************************)
(* Properties of a call.                                                   *)
(***************************************************************************)
Done(c) == pc[c] \in {"Success", "Failed"}

\* The call got a body that decoded, with ok false
ServerError(c) == Done(c) /\ decoded[c].some /\ ~decoded[c].v.ok

\* Every further member of the body of call c decodes as its field of the Response
MembersDecode(c) ==
    \A f \in ExtraFields(ep[c]) : MemberFits(f, reply[c].val.members[f])

(* C1: whatever the endpoint and the outcome, a call invokes the sender's  *)
(* send exactly once: not at all before the send step, once from then on,  *)
(* and in particular once when the call has returned.                      *)
SendExactlyOnce ==
    \A c \in DOMAIN pc :
        /\ pc[c] = "Unsent" => Len(sent[c]) = 0
        /\ pc[c] # "Unsent" => Len(sent[c]) = 1

SendExactlyOnceWitness ==
    \E c \in DOMAIN pc :
        /\ pc[c] = "Failed"
        /\ reply[c].kind = "Err"
        /\ Len(sent[c]) = 1

(* C2: when send returns the failure e, the call returns Client(e) with e  *)
(* unchanged, nothing is decoded and nothing is sent again.                *)
TransportFailureIsClient ==
    \A c \in DOMAIN pc :
        reply[c].kind = "Err" =>
            /\ pc[c] = "Failed"
            /\ result[c] = Err(Client(reply[c].err))
            /\ decoded[c] = None
            /\ Len(sent[c]) = 1

TransportFailureIsClientWitness ==
    \E c \in DOMAIN pc :
        /\ reply[c] = Err("timed out")
        /\ result[c] = Err(Client("timed out"))

(* C3: a body that does not decode as the Response (non-JSON text, for     *)
(* one) ends the call with MalformedResponse carrying the decode failure:  *)
(* no success, no default Response, no domain or Unknown error, no resend. *)
UndecodableIsMalformedResponse ==
    \A c \in DOMAIN pc :
        /\ (reply[c].kind = "Ok" /\ from_str(ep[c], reply[c].val).kind = "Err") =>
              /\ pc[c] = "Failed"
              /\ result[c] = Err(MalformedResponse(from_str(ep[c], reply[c].val).err))
              /\ decoded[c] = None
              /\ Len(sent[c]) = 1
        /\ (reply[c].kind = "Ok" /\ reply[c].val.json = "invalid") =>
              /\ pc[c] = "Failed"
              /\ result[c].kind = "Err"
              /\ result[c].err.tag = "MalformedResponse"

UndecodableIsMalformedResponseWitness ==
    \E c \in DOMAIN pc :
        /\ reply[c] = Ok(Text("<html>error</html>"))
        /\ result[c] = Err(MalformedResponse("expected value"))

(* C4: a decoded Response with ok = true is returned as success whatever   *)
(* its error member holds; only ok = false leads to an error.              *)
OkTrueWins ==
    \A c \in DOMAIN pc :
        /\ (Done(c) /\ decoded[c].some /\ decoded[c].v.ok) =>
              /\ pc[c] = "Success"
              /\ result[c] = Ok(decoded[c].v)
        /\ (Done(c) /\ reply[c].kind = "Ok" /\ reply[c].val.json = "object"
               /\ reply[c].val.ok = JBool(TRUE)
               /\ reply[c].val.error.t \in {"absent", "null", "string"}
               /\ MembersDecode(c)) =>
              /\ pc[c] = "Success"
              /\ result[c].kind = "Ok"
        /\ (Done(c) /\ decoded[c].some /\ result[c].kind = "Err") => ~decoded[c].v.ok

OkTrueWinsWitness ==
    \E c \in DOMAIN pc :
        /\ pc[c] = "Success"
        /\ reply[c] = Ok(Object(JBool(TRUE), JStr("channel_not_found")))
        /\ result[c] = Ok([ok |-> TRUE, error |-> Some("channel_not_found")])

(* C5: with ok = false and no error member the call does what it does for  *)
(* the empty error string: on every endpoint it returns Unknown("").       *)
MissingErrorIsUnknownEmpty ==
    \A c \in DOMAIN pc :
        /\ (ServerError(c) /\ decoded[c].v.error \in {None, Some("")}) =>
              /\ pc[c] = "Failed"
              /\ result[c] = Err(Unknown(""))
        /\ (Done(c) /\ reply[c].kind = "Ok" /\ reply[c].val.json = "object"
               /\ reply[c].val.ok = JBool(FALSE)
               /\ reply[c].val.error \in {JAbsent, JStr("")}
               /\ MembersDecode(c)) =>
              result[c] = Err(Unknown(""))

MissingErrorIsUnknownEmptyWitness ==
    \E c \in DOMAIN pc :
        /\ pc[c] = "Failed"
        /\ reply[c] = Ok(Object(JBool(FALSE), JAbsent))
        /\ result[c] = Err(Unknown(""))

(* C6: a body that decodes but has no ok member counts as ok = false: the  *)
(* call never succeeds on it and returns the error resolved from its error *)
(* member, so {} gives Unknown("").                                        *)
MissingOkIsFalse ==
    \A c \in DOMAIN pc :
        (reply[c].kind = "Ok" /\ reply[c].val.json = "object"
           /\ reply[c].val.ok = JAbsent
           /\ reply[c].val.error.t \in {"absent", "null", "string"}) =>
            /\ pc[c] \in {"Decoded", "Failed"}
            /\ decoded[c].some /\ ~decoded[c].v.ok
            /\ pc[c] = "Failed" =>
                  result[c] = Err(ErrorFrom(ep[c], IF reply[c].val.error.t = "string"
                                                   THEN reply[c].val.error.s ELSE ""))
            /\ (pc[c] = "Failed" /\ reply[c].val.error = JAbsent) =>
                  result[c] = Err(Unknown(""))

MissingOkIsFalseWitness ==
    \E c \in DOMAIN pc :
        /\ pc[c] = "Failed"
        /\ reply[c] = Ok(Object(JAbsent, JAbsent))
        /\ decoded[c] = Some([ok |-> FALSE, error |-> None])
        /\ result[c] = Err(Unknown(""))

(* C7: with ok = false and a code the endpoint does not document, the call *)
(* returns Unknown carrying the received string character for character.   *)
UnknownCodeVerbatim ==
    \A c \in DOMAIN pc :
        (Done(c) /\ reply[c].kind = "Ok" /\ reply[c].val.json = "object"
           /\ reply[c].val.ok = JBool(FALSE)
           /\ reply[c].val.error.t = "string"
           /\ reply[c].val.error.s \notin CodesOf[ep[c]]) =>
            /\ pc[c] = "Failed"
            /\ result[c] = Err(Unknown(reply[c].val.error.s))

UnknownCodeVerbatimWitness ==
    \E c \in DOMAIN pc :
        /\ ep[c] = "unarchive"
        /\ reply[c] = Ok(Object(JBool(FALSE), JStr("some_future_code_xyz")))
        /\ result[c] = Err(Unknown("some_future_code_xyz"))

(* C8: with ok = false and a code the endpoint documents, the whole call   *)
(* returns the domain variant documented under that code, for invite and   *)
(* already_in_channel AlreadyInChannel; never Unknown, MalformedResponse or *)
(* Client.                                                                 *)
KnownCodeIsDomainVariant ==
    \A c \in DOMAIN pc :
        (Done(c) /\ reply[c].kind = "Ok" /\ reply[c].val.json = "object"
           /\ reply[c].val.ok = JBool(FALSE)
           /\ reply[c].val.error.t = "string"
           /\ reply[c].val.error.s \in CodesOf[ep[c]]) =>
            /\ pc[c] = "Failed"
            /\ result[c].kind = "Err"
            /\ result[c].err.tag \in DomainVariants(ep[c])
            /\ result[c].err = Variant(result[c].err.tag)
            /\ CodeOf(Description(ep[c], result[c].err)) = reply[c].val.error.s
            /\ (ep[c] = "invite" /\ reply[c].val.error.s = "already_in_channel") =>
                  result[c] = Err(Variant("AlreadyInChannel"))

KnownCodeIsDomainVariantWitness ==
    \E c \in DOMAIN pc :
        /\ ep[c] = "invite"
        /\ request[c] = [channel |-> "C123", user |-> "U1"]
        /\ reply[c] = Ok(Object(JBool(FALSE), JStr("already_in_channel")))
        /\ result[c] = Err(Variant("AlreadyInChannel"))

\* The body {"ok": false, "error": "channel_not_found"} was received and converted
GotChannelNotFound(c) ==
    Done(c) /\ reply[c] = Ok(Object(JBool(FALSE), JStr("channel_not_found")))

\* The body {"ok": true} was received and converted
GotOkTrue(c) == Done(c) /\ reply[c] = Ok(Object(JBool(TRUE), JAbsent))

(* C9, as claimed: on each of the fifteen endpoints ok = false with error   *)
(* channel_not_found gives the ChannelNotFound variant, and ok = true with  *)
(* no error member gives success.                                          *)
ChannelNotFoundOnEveryEndpoint ==
    \A c \in DOMAIN pc :
        /\ GotChannelNotFound(c) => result[c] = Err(Variant("ChannelNotFound"))
        /\ GotOkTrue(c) => (pc[c] = "Success" /\ result[c].kind = "Ok" /\ result[c].val.ok)

(* C9, amended: ok = false with error channel_not_found gives the           *)
(* ChannelNotFound variant on the thirteen endpoints that have one; create  *)
(* and list have none and give Unknown carrying channel_not_found; ok =     *)
(* true with no error member gives success on all fifteen.                 *)
ChannelNotFoundWhereDeclared ==
    \A c \in DOMAIN pc :
        /\ (GotChannelNotFound(c) /\ ep[c] \notin {"create", "list"}) =>
              (pc[c] = "Failed" /\ result[c] = Err(Variant("ChannelNotFound")))
        /\ (GotChannelNotFound(c) /\ ep[c] \in {"create", "list"}) =>
              (pc[c] = "Failed" /\ result[c] = Err(Unknown("channel_not_found")))
        /\ GotOkTrue(c) =>
              (pc[c] = "Success" /\ result[c] = Ok(Response(ep[c], TRUE, None, [f \in ExtraNames |-> None])))

ChannelNotFoundWhereDeclaredWitness ==
    \E c \in DOMAIN pc :
        /\ GotChannelNotFound(c)
        /\ ep[c] = "info"
        /\ result[c] = Err(Variant("ChannelNotFound"))

OneOutcome ==
    \A c \in DOMAIN pc :
        /\ ~Done(c) => result[c] = NoValue
        /\ pc[c] = "Success" =>
              /\ DOMAIN result[c] = {"kind", "val"}
              /\ result[c].kind = "Ok"
              /\ decoded[c].some /\ decoded[c].v.ok
              /\ result[c].val = decoded[c].v
        /\ pc[c] = "Failed" =>
              /\ DOMAIN result[c] = {"kind", "err"}
              /\ result[c].kind = "Err"
              /\ \/ /\ reply[c].kind = "Err"
                    /\ result[c].err = Client(reply[c].err)
                 \/ /\ result[c].err.tag = "MalformedResponse"
                    /\ DOMAIN result[c].err = {"tag", "e"}
                    /\ ~decoded[c].some
                 \/ /\ result[c].err.tag = "Unknown"
                    /\ DOMAIN result[c].err = {"tag", "s"}
                    /\ decoded[c].some /\ ~decoded[c].v.ok
                 \/ /\ result[c].err.tag \in DomainVariants(ep[c])
                    /\ DOMAIN result[c].err = {"tag"}
                    /\ decoded[c].some /\ ~decoded[c].v.ok

OneOutcomeWitness ==
    \E c \in DOMAIN pc :
        /\ ep[c] = "kick"
        /\ pc[c] = "Failed"
        /\ decoded[c] = Some([ok |-> FALSE, error |-> Some("cant_kick_self")])
        /\ result[c] = Err(Variant("CantKickSelf"))

\* The parameter list the sender was handed by call c
SentParams(c) == sent[c][1].params

\* The names in a parameter list, in order
Names(ps) == [i \in DOMAIN ps |-> ps[i][1]]

\* No optional field of the request of call c is set
NoOptionalSet(c) == \A f \in OptionalFields(ep[c]) : ~request[c][f].some

(* C12: with no optional field set the sender is handed exactly the token  *)
(* followed by every required field in declared order, and no optional     *)
(* name: the token alone for list, token, channel, name for rename.        *)
RequiredOnlyParams ==
    \A c \in DOMAIN pc :
        (Len(sent[c]) > 0 /\ NoOptionalSet(c)) =>
            /\ SentParams(c) =
                  << <<"token", token[c]>> >> \o
                  [i \in 1..Len(RequiredFields(ep[c])) |->
                      <<RequiredFields(ep[c])[i], request[c][RequiredFields(ep[c])[i]]>>]
            /\ \A i \in DOMAIN SentParams(c) : SentParams(c)[i][1] \notin OptionalFields(ep[c])
            /\ ep[c] = "list" => SentParams(c) = << <<"token", token[c]>> >>
            /\ ep[c] = "rename" =>
                  SentParams(c) = << <<"token", token[c]>>,
                                     <<"channel", request[c].channel>>,
                                     <<"name", request[c].name>> >>

RequiredOnlyParamsWitness ==
    \E c \in DOMAIN pc :
        /\ ep[c] = "rename"
        /\ request[c] = [channel |-> "C123", name |-> "general", validate |-> None]
        /\ Len(sent[c]) = 1
        /\ SentParams(c) = << <<"token", token[c]>>, <<"channel", "C123">>, <<"name", "general">> >>

(* C13: an optional bool field set to true is sent as "1", set to false as *)
(* "0", and when unset its name is not in the list; "true", "false" and    *)
(* the empty string are never sent for it.                                 *)
BoolParams ==
    \A c \in DOMAIN pc :
        Len(sent[c]) > 0 =>
            \A f \in BoolFields(ep[c]) :
                LET at == {i \in DOMAIN SentParams(c) : SentParams(c)[i][1] = f}
                IN  /\ request[c][f] = None => at = {}
                    /\ request[c][f] = Some(TRUE) =>
                          (Cardinality(at) = 1 /\ \A i \in at : SentParams(c)[i][2] = "1")
                    /\ request[c][f] = Some(FALSE) =>
                          (Cardinality(at) = 1 /\ \A i \in at : SentParams(c)[i][2] = "0")
                    /\ \A i \in at : SentParams(c)[i][2] \notin {"true", "false", ""}

BoolParamsWitness ==
    \E c \in DOMAIN pc :
        /\ ep[c] = "list"
        /\ request[c] = [exclude_archived |-> Some(TRUE), exclude_members |-> Some(FALSE)]
        /\ Len(sent[c]) = 1
        /\ SentParams(c) = << <<"token", token[c]>>,
                               <<"exclude_archived", "1">>, <<"exclude_members", "0">> >>

(* C14: the list handed to the sender has ("token", the caller's token) as *)
(* its first element and the name token nowhere else.                      *)
TokenFirstOnce ==
    \A c \in DOMAIN pc :
        Len(sent[c]) > 0 =>
            /\ Len(SentParams(c)) >= 1
            /\ SentParams(c)[1] = <<"token", token[c]>>
            /\ {i \in DOMAIN SentParams(c) : SentParams(c)[i][1] = "token"} = {1}

TokenFirstOnceWitness ==
    \E c \in DOMAIN pc :
        /\ ep[c] = "mark"
        /\ token[c] = "xoxb-1"
        /\ Len(sent[c]) = 1
        /\ SentParams(c)[1] = <<"token", "xoxb-1">>
        /\ Len(SentParams(c)) = 3

\* The position of name x in the order token, then the declared fields
Position(e, x) ==
    CHOOSE i \in 1..(Len(FieldOrder(e)) + 1) : (<<"token">> \o FieldOrder(e))[i] = x

(* C15: whatever optional fields are set, the names handed to the sender   *)
(* are among token and the declared fields, appear in declared order, and  *)
(* none appears twice.                                                     *)
ParamsInDeclaredOrder ==
    \A c \in DOMAIN pc :
        Len(sent[c]) > 0 =>
            LET ns == Names(SentParams(c))
            IN  /\ \A i \in DOMAIN ns :
                      \E k \in 1..(Len(FieldOrder(ep[c])) + 1) :
                          (<<"token">> \o FieldOrder(ep[c]))[k] = ns[i]
                /\ \A i, j \in DOMAIN ns :
                      i < j => Position(ep[c], ns[i]) < Position(ep[c], ns[j])

ParamsInDeclaredOrderWitness ==
    \E c \in DOMAIN pc :
        /\ ep[c] = "history"
        /\ Len(sent[c]) = 1
        /\ Names(SentParams(c)) = <<"token", "channel", "inclusive", "count">>

(* C16: archive called with token "xoxb-1" and channel "C123" hands the    *)
(* sender exactly [("token","xoxb-1"), ("channel","C123")], and returns    *)
(* success when the sender returns the body {"ok": true}.                  *)
ArchiveScenario ==
    \A c \in DOMAIN pc :
        (ep[c] = "archive" /\ token[c] = "xoxb-1" /\ request[c] = [channel |-> "C123"]) =>
            /\ Len(sent[c]) > 0 =>
                  SentParams(c) = << <<"token", "xoxb-1">>, <<"channel", "C123">> >>
            /\ (Done(c) /\ reply[c] = Ok(Object(JBool(TRUE), JAbsent))) =>
                  (pc[c] = "Success" /\ result[c].kind = "Ok" /\ result[c].val.ok)

ArchiveScenarioWitness ==
    \E c \in DOMAIN pc :
        /\ ep[c] = "archive" /\ token[c] = "xoxb-1" /\ request[c] = [channel |-> "C123"]
        /\ sent[c] = << [url |-> "https://slack.com/api/channels.archive",
                          params |-> << <<"token", "xoxb-1">>, <<"channel", "C123">> >>] >>
        /\ reply[c] = Ok(Object(JBool(TRUE), JAbsent))
        /\ pc[c] = "Success"

(* C17: no input is checked before the send: whatever the token and the    *)
(* required fields hold, empty strings included, the only step a call that *)
(* has not sent can take is the send, which returns no error of its own    *)
(* and hands the sender the token and every required field with the value  *)
(* the caller passed.                                                      *)
NoLocalValidation ==
    /\ [](\A c \in DOMAIN pc : pc[c] = "Unsent" => ENABLED Send(c))
    /\ [][\A c \in DOMAIN pc :
          pc[c] = "Unsent" =>
                 /\ result[c] = NoValue
                 /\ result'[c] = NoValue
                 /\ pc'[c] \in {"Unsent", "Sent"}
                 /\ pc'[c] = "Sent" =>
                       /\ Len(sent'[c]) = 1
                       /\ \E i \in DOMAIN sent'[c][1].params :
                             sent'[c][1].params[i] = <<"token", token[c]>>
                       /\ \A k \in DOMAIN RequiredFields(ep[c]) :
                             \E i \in DOMAIN sent'[c][1].params :
                                 sent'[c][1].params[i] = <<RequiredFields(ep[c])[k],
                                                           request[c][RequiredFields(ep[c])[k]]>>]_vars

NoLocalValidationWitness ==
    \E c \in DOMAIN pc :
        /\ ep[c] = "create"
        /\ token[c] = ""
        /\ request[c].name = ""
        /\ pc[c] = "Sent"
        /\ SentParams(c)[1] = <<"token", "">>
        /\ SentParams(c)[2] = <<"name", "">>

\* The order of the phases of a call
Rank(p) ==
    CASE p = "Unsent" -> 1
      [] p = "Sent" -> 2
      [] p = "Decoded" -> 3
      [] p \in {"Success", "Failed"} -> 4

(* C18: a call only moves forward through Unsent, Sent, Decoded, then      *)
(* Success or Failed: the send happens in Unsent only, a body is decoded   *)
(* in Sent only and only after send returned one, a Result comes from the  *)
(* ok flag only in Decoded, no phase is entered again, and nothing changes *)
(* once the call is in Success or Failed.                                  *)
PhasesOnlyForward ==
    [][\A c \in DOMAIN pc :
          /\ pc'[c] # pc[c] => Rank(pc'[c]) > Rank(pc[c])
          /\ sent'[c] # sent[c] => (pc[c] = "Unsent" /\ pc'[c] = "Sent")
          /\ reply'[c] # reply[c] => pc[c] = "Sent"
          /\ decoded'[c] # decoded[c] =>
                (pc[c] = "Sent" /\ pc'[c] = "Decoded" /\ reply'[c].kind = "Ok")
          /\ pc'[c] = "Decoded" => (pc[c] \in {"Sent", "Decoded"} /\ decoded'[c].some)
          /\ pc'[c] = "Success" => pc[c] \in {"Decoded", "Success"}
          /\ (pc[c] = "Decoded" /\ pc'[c] # pc[c]) => pc'[c] \in {"Success", "Failed"}
          /\ Done(c) =>
                /\ pc'[c] = pc[c] /\ sent'[c] = sent[c] /\ reply'[c] = reply[c]
                /\ decoded'[c] = decoded[c] /\ result'[c] = result[c]]_vars

PhasesOnlyForwardWitness ==
    \E c \in DOMAIN pc :
        /\ pc[c] = "Success"
        /\ Len(sent[c]) = 1
        /\ reply[c].kind = "Ok"
        /\ decoded[c].some
        /\ result[c] = Ok(decoded[c].v)
        /\ ep[c] = "replies"

(* C19: when the sender completes every send, with a body or a failure,   *)
(* every call eventually returns a Result.                                 *)
CallCompletes == <>(\A c \in DOMAIN pc : Done(c) /\ result[c] # NoValue)

CallCompletesWitness ==
    \E c \in DOMAIN pc :
        /\ pc[c] = "Failed"
        /\ reply[c] = Err("connection refused")
        /\ result[c] = Err(Client("connection refused"))

\* Some variable of call c changes in the step
Changed(c) ==
    \/ pc'[c] # pc[c] \/ sent'[c] # sent[c] \/ reply'[c] # reply[c]
    \/ decoded'[c] # decoded[c] \/ result'[c] # result[c]

(* C20: with calls running concurrently, in every interleaving each call   *)
(* hands the sender the list built from its own token and Request, its     *)
(* result is the one its own endpoint derives from the reply to its own    *)
(* send, and a step of one call changes nothing of another call.           *)
CallsIndependent ==
    /\ [](\A c \in DOMAIN pc :
            /\ Len(sent[c]) > 0 =>
                  sent[c] = << [url |-> Url(ep[c]),
                                params |-> Params(ep[c], token[c], request[c])] >>
            /\ decoded[c].some =>
                  (reply[c].kind = "Ok" /\ Ok(decoded[c].v) = from_str(ep[c], reply[c].val))
            /\ Done(c) =>
                  result[c] = AndThenInto(ep[c], AndThenDecode(ep[c], MapErrClient(reply[c]))))
    /\ [][/\ ep' = ep /\ token' = token /\ request' = request
          /\ \A c, d \in DOMAIN pc : (c # d /\ Changed(c)) => ~Changed(d)]_vars

CallsIndependentWitness ==
    /\ DOMAIN pc = {1, 2}
    /\ pc[1] = "Sent"
    /\ pc[2] = "Failed"
    /\ ep[2] = "invite"
    /\ sent[1][1].params = << <<"token", "xoxb-1">>, <<"channel", "C123">> >>
    /\ sent[2][1].params = << <<"token", "xoxb-1">>, <<"channel", "">>, <<"user", "">> >>
    /\ reply[2] = Ok(Object(JBool(FALSE), JStr("already_in_channel")))
    /\ result[2] = Err(Variant("AlreadyInChannel"))

(* C21: a call leaves the token and the Request as they were: no step     *)
(* changes the token, the Request or the endpoint of any call, so at every *)
(* later moment the list that was sent is still the list built from the    *)
(* token and the Request the caller holds.                                 *)
InputsUnchanged ==
    /\ [][token' = token /\ request' = request /\ ep' = ep]_vars
    /\ [](\A c \in DOMAIN pc :
            Len(sent[c]) > 0 => SentParams(c) = Params(ep[c], token[c], request[c]))

InputsUnchangedWitness ==
    \E c \in DOMAIN pc :
        /\ pc[c] = "Success"
        /\ ep[c] = "history"
        /\ token[c] = "xoxb-1"
        /\ request[c].count = Some(U32(0, 1000))
        /\ request[c].inclusive = Some(TRUE)
        /\ <<"count", "1000">> \in {SentParams(c)[i] : i \in DOMAIN SentParams(c)}

(* C22: the text of a domain variant is "<code>: <description>" with both  *)
(* parts non-empty, <code> is the code from which the endpoint's table     *)
(* resolved the variant, and resolving the part before the first ": "      *)
(* returns the same variant.                                               *)
DescriptionStartsWithCode ==
    \A i \in DOMAIN resolved :
        LET r == resolved[i]
        IN  ("text" \in DOMAIN r /\ r.err.tag \in DomainVariants(r.ep)) =>
                /\ ColonAt(r.text, 1) > 1
                /\ ColonAt(r.text, 1) + 1 < Len(r.text)
                /\ i > 1 => resolved[i - 1].s = CodeOf(r.text)
                /\ (i < Len(resolved) /\ resolved[i + 1].s = CodeOf(r.text)) =>
                      resolved[i + 1].v = r.err

DescriptionStartsWithCodeWitness ==
    /\ Len(resolved) = 3
    /\ resolved[1] = [ep |-> "invite", s |-> "cant_invite_self", v |-> Variant("CantInviteSelf")]
    /\ resolved[2].err = Variant("CantInviteSelf")
    /\ CodeOf(resolved[2].text) = "cant_invite_self"
    /\ resolved[3] = resolved[1]

(* C23: within an endpoint's table two different codes never resolve to   *)
(* the same domain variant, no documented code resolves to Unknown,        *)
(* MalformedResponse or Client, and once every code has been resolved each *)
(* domain variant has come out for exactly one code.                       *)
TableOneToOne ==
    /\ \A i, j \in DOMAIN resolved :
          (i # j /\ resolved[i].v.tag \in DomainVariants(resolved[i].ep)) =>
              resolved[i].v # resolved[j].v
    /\ \A i \in DOMAIN resolved :
          resolved[i].s \in CodesOf[resolved[i].ep] =>
              /\ resolved[i].v.tag \in DomainVariants(resolved[i].ep)
              /\ resolved[i].v.tag \notin {"Unknown", "MalformedResponse", "Client"}
    /\ Tabulated = ErrorStrings =>
          \A v \in DomainVariants(resolved[1].ep) :
              Cardinality({i \in DOMAIN resolved : resolved[i].v = Variant(v)}) = 1

TableOneToOneWitness ==
    /\ Tabulated = ErrorStrings
    /\ resolved[1].ep = "rename"
    /\ \E i, j \in DOMAIN resolved :
          /\ resolved[i].s = "invalid_name" /\ resolved[i].v = Variant("InvalidName")
          /\ resolved[j].s = "invalid_name_required"
          /\ resolved[j].v = Variant("InvalidNameRequired")

(* C24: on every endpoint each of the eleven platform-wide codes resolves  *)
(* to a domain variant of the endpoint, the one documented under that      *)
(* code, and never to Unknown.                                             *)
PlatformCodesKnownEverywhere ==
    \A i \in DOMAIN resolved :
        resolved[i].s \in PlatformCodes =>
            /\ resolved[i].v.tag # "Unknown"
            /\ resolved[i].v.tag \in DomainVariants(resolved[i].ep)
            /\ CodeOf(Description(resolved[i].ep, resolved[i].v)) = resolved[i].s

PlatformCodesKnownEverywhereWitness ==
    /\ Len(resolved) = 2
    /\ resolved[1] = [ep |-> "replies", s |-> "team_added_to_org", v |-> Variant("TeamAddedToOrg")]
    /\ resolved[2] = [ep |-> "list", s |-> "channel_not_found", v |-> Unknown("channel_not_found")]

\* The codes some other endpoint documents and the endpoint e does not
ForeignCodes(e) == KnownCodes \ CodesOf[e]

(* C25: a code that another endpoint documents and the called endpoint     *)
(* does not comes back as Unknown carrying that code, never as a domain    *)
(* variant of any endpoint: already_in_channel from archive and            *)
(* already_archived from unarchive are Unknown.                            *)
ForeignCodeIsUnknown ==
    \A c \in DOMAIN pc :
        (Done(c) /\ decoded[c].some /\ ~decoded[c].v.ok /\ decoded[c].v.error.some
           /\ decoded[c].v.error.v \in ForeignCodes(ep[c])) =>
            /\ result[c] = Err(Unknown(decoded[c].v.error.v))
            /\ \A e \in Endpoints : result[c].err.tag \notin DomainVariants(e)
            /\ (ep[c] = "archive" /\ decoded[c].v.error.v = "already_in_channel") =>
                  result[c] = Err(Unknown("already_in_channel"))
            /\ (ep[c] = "unarchive" /\ decoded[c].v.error.v = "already_archived") =>
                  result[c] = Err(Unknown("already_archived"))

ForeignCodeIsUnknownWitness ==
    \E c \in DOMAIN pc :
        /\ pc[c] = "Failed"
        /\ ep[c] = "unarchive"
        /\ reply[c] = Ok(Object(JBool(FALSE), JStr("already_archived")))
        /\ "already_archived" \in CodesOf["archive"]
        /\ result[c] = Err(Unknown("already_archived"))

\* s is not the code but differs from it only in letter case or surrounding
\* whitespace, or is a proper prefix or extension of it
NearMiss(s, code) ==
    /\ s # code
    /\ \/ starts_with(code, s)
       \/ starts_with(s, code)
       \/ <<s, code>> \in {<<"Channel_Not_Found", "channel_not_found">>,
                            <<"CHANNEL_NOT_FOUND", "channel_not_found">>,
                            <<" channel_not_found", "channel_not_found">>}

(* C26: a code resolves to a domain variant only when it is, as a whole    *)
(* string, the code documented for that variant; a string that differs     *)
(* from a documented code in letter case or surrounding whitespace, or is  *)
(* a prefix or extension of it, resolves to Unknown or to the variant      *)
(* documented under the string itself, never to the variant of the code    *)
(* it resembles.                                                           *)
ExactMatchOnly ==
    \A i \in DOMAIN resolved :
        LET r == resolved[i]
        IN  /\ r.v.tag \in DomainVariants(r.ep) => CodeOf(Description(r.ep, r.v)) = r.s
            /\ \A v \in DomainVariants(r.ep) :
                  NearMiss(r.s, CodeOf(Description(r.ep, Variant(v)))) =>
                      /\ r.v # Variant(v)
                      /\ r.v = Unknown(r.s) \/ r.s \in CodesOf[r.ep]
            /\ (r.ep \in {"create", "rename"} /\ r.s = "invalid_name_required") =>
                  r.v = Variant("InvalidNameRequired")
            /\ (r.ep \in {"create", "rename"} /\ r.s = "invalid_name") =>
                  r.v = Variant("InvalidName")

ExactMatchOnlyWitness ==
    /\ Len(resolved) = 3
    /\ resolved[1] = [ep |-> "create", s |-> "invalid_name_", v |-> Unknown("invalid_name_")]
    /\ resolved[2] = [ep |-> "archive", s |-> "channel_not_found", v |-> Variant("ChannelNotFound")]
    /\ resolved[3] = resolved[1]
    /\ NearMiss("invalid_name_", "invalid_name")
    /\ NearMiss("invalid_name_", "invalid_name_required")

(* C27: every send of a call goes to the URL resolved from the method the  *)
(* called function wraps (channels.archive for archive, channels.setPurpose *)
(* for set_purpose, channels.setTopic for set_topic, ...), no two           *)
(* endpoints wrap the same method, and a call hands the sender one URL.    *)
OwnMethodUrl ==
    \A c \in DOMAIN pc :
        /\ Len(sent[c]) <= 1
        /\ pc[c] # "Unsent" => Len(sent[c]) = 1
        /\ \A i \in DOMAIN sent[c] :
              /\ sent[c][i].url = get_slack_url_for_method(MethodOf(ep[c]))
              /\ \A e \in Endpoints \ {ep[c]} : MethodOf(e) # MethodOf(ep[c])
        /\ ep[c] = "archive" => MethodOf(ep[c]) = "channels.archive"
        /\ ep[c] = "set_purpose" => MethodOf(ep[c]) = "channels.setPurpose"
        /\ ep[c] = "set_topic" => MethodOf(ep[c]) = "channels.setTopic"
        /\ ep[c] = "unarchive" => MethodOf(ep[c]) = "channels.unarchive"

OwnMethodUrlWitness ==
    \E c \in DOMAIN pc :
        /\ pc[c] = "Success"
        /\ ep[c] = "set_topic"
        /\ Len(sent[c]) = 1
        /\ sent[c][1].url = get_slack_url_for_method("channels.setTopic")

\* The number a string of decimal digits denotes, as a u32 in two halves
DecimalValue(str) ==
    LET val[i \in 0..Len(str)] ==
            IF i = 0 THEN U32(0, 0)
            ELSE LET ch == SubSeq(str, i, i)
                     d == CASE ch = "0" -> 0 [] ch = "1" -> 1 [] ch = "2" -> 2
                            [] ch = "3" -> 3 [] ch = "4" -> 4 [] ch = "5" -> 5
                            [] ch = "6" -> 6 [] ch = "7" -> 7 [] ch = "8" -> 8
                            [] ch = "9" -> 9
                     t == val[i - 1].lo * 10 + d
                 IN  U32(val[i - 1].hi * 10 + t \div 65536, t % 65536)
    IN  val[Len(str)]

\* str is the decimal representation of n: digits only, no sign, no leading zero
IsDecimalOf(str, n) ==
    /\ Len(str) >= 1
    /\ \A i \in 1..Len(str) :
          SubSeq(str, i, i) \in {"0", "1", "2", "3", "4", "5", "6", "7", "8", "9"}
    /\ Len(str) > 1 => SubSeq(str, 1, 1) # "0"
    /\ DecimalValue(str) = n

\* The positions of the parameter count in the list sent
CountAt(c) == {i \in DOMAIN SentParams(c) : SentParams(c)[i][1] = "count"}

(* C28: history sends the count, when set, once as the parameter count     *)
(* with the decimal representation of the number, and no count parameter   *)
(* when unset; 0 and 4294967295, outside the documented range, are sent as *)
(* "0" and "4294967295", and the call goes on to the sender all the same.  *)
HistoryCountAsGiven ==
    \A c \in DOMAIN pc :
        ep[c] = "history" =>
            /\ pc[c] # "Unsent" => Len(sent[c]) = 1
            /\ Len(sent[c]) > 0 =>
                  /\ request[c].count.some =>
                        /\ Cardinality(CountAt(c)) = 1
                        /\ \A i \in CountAt(c) :
                              IsDecimalOf(SentParams(c)[i][2], request[c].count.v)
                  /\ ~request[c].count.some => CountAt(c) = {}
                  /\ request[c].count = Some(U32(0, 0)) =>
                        \E i \in CountAt(c) : SentParams(c)[i] = <<"count", "0">>
                  /\ request[c].count = Some(U32(65535, 65535)) =>
                        \E i \in CountAt(c) : SentParams(c)[i] = <<"count", "4294967295">>

HistoryCountAsGivenWitness ==
    \E c \in DOMAIN pc :
        /\ pc[c] = "Success"
        /\ ep[c] = "history"
        /\ request[c].count = Some(U32(65535, 65535))
        /\ SentParams(c) =
              << <<"token", token[c]>>, <<"channel", request[c].channel>>,
                 <<"count", "4294967295">> >>

\* The body of call c is an object with ok = true, a decodable error member
\* and none of the further members of the endpoint's Response
OkTrueFieldsMissing(c) ==
    /\ reply[c].kind = "Ok"
    /\ reply[c].val.json = "object"
    /\ reply[c].val.ok = JBool(TRUE)
    /\ reply[c].val.error.t \in {"absent", "null", "string"}
    /\ \A f \in ExtraFields(ep[c]) : reply[c].val.members[f] = JAbsent

(* C29: a body with ok = true and the further fields of the Response       *)
(* (channel, channels, messages, has_more, latest, thread_info, purpose,   *)
(* topic) missing gives success with those fields absent, never            *)
(* MalformedResponse or another error; and whenever a body decodes, the    *)
(* call succeeds exactly when ok is true, whatever the other fields hold.  *)
SuccessOnOkAlone ==
    \A c \in DOMAIN pc :
        /\ (Done(c) /\ OkTrueFieldsMissing(c)) =>
              /\ pc[c] = "Success"
              /\ result[c].kind = "Ok"
              /\ result[c].val.ok
              /\ DOMAIN result[c].val = {"ok", "error"} \cup ExtraFields(ep[c])
              /\ \A f \in ExtraFields(ep[c]) : result[c].val[f] = None
        /\ (Done(c) /\ decoded[c].some) => (pc[c] = "Success" <=> decoded[c].v.ok)

SuccessOnOkAloneWitness ==
    \E c \in DOMAIN pc :
        /\ pc[c] = "Success"
        /\ ep[c] = "history"
        /\ reply[c] = Ok(ObjectWith(JBool(TRUE), JAbsent, Members("none")))
        /\ result[c] = Ok([ok |-> TRUE, error |-> None, has_more |-> None,
                            latest |-> None, messages |-> None])

(* C30: the text of Unknown is the string it carries and nothing else: a   *)
(* string that is not a documented code of the endpoint resolves to        *)
(* Unknown carrying it, the text written for that error is the string      *)
(* again, and resolving that text gives the same Unknown.                  *)
UnknownTextIsCode ==
    \A i \in DOMAIN resolved :
        LET r == resolved[i]
        IN  /\ ("v" \in DOMAIN r /\ r.s \notin CodesOf[r.ep]) => r.v = Unknown(r.s)
            /\ ("text" \in DOMAIN r /\ r.err.tag = "Unknown") =>
                  /\ r.text = r.err.s
                  /\ i > 1 => r.text = resolved[i - 1].s
                  /\ (i < Len(resolved) /\ resolved[i + 1].s = r.text) =>
                        resolved[i + 1].v = r.err

UnknownTextIsCodeWitness ==
    /\ Len(resolved) = 3
    /\ resolved[1] = [ep |-> "list", s |-> "not_authed: No authentication token provided.",
                      v |-> Unknown("not_authed: No authentication token provided.")]
    /\ resolved[2].text = "not_authed: No authentication token provided."
    /\ resolved[3] = resolved[1]

====
